---------------------------- MODULE Spec2Model ----------------------------
(***************************************************************************)
(* Institutional Complexity Index dashboard: the table of observations,    *)
(* the memoized fetch operations, and the ranking / delta computations of  *)
(* render_metrics.                                                         *)
(*                                                                         *)
(* Values are integers standing for multiples of 0.004 index points, so    *)
(* that the two-decimal formatting of a value delta is a real rounding.    *)
(***************************************************************************)
EXTENDS Integers, Sequences, FiniteSets, TLC

VARIABLES
    \* the external store and the process configuration
    table,              \* the Supabase table: <<country, year>> -> cell
    local,              \* the table of the local PostgreSQL database
    storeUp,            \* whether a request to the store succeeds
    client,             \* whether the store client was configured at load time
    variant,            \* "supabase" (update_load_data.py) or "sql" (data_loader.py)
    \* upload_data_to_supabase
    up_pc,              \* "idle", "insert", "done" or "aborted"
    up_df,              \* the rows read from the local database
    up_next,            \* start of the next batch (0-based, as range(0, len, batch))
    up_log,             \* what the upload printed for each insert and for a failure
    \* st.cache_data
    cache,              \* key -> [value, age, src]
    \* one run of the dashboard
    df_all_latest,      \* metrics.py: the all-countries slice of the latest year
    selected_country,   \* the primary country (None: nothing selected)
    rankings_current,   \* metrics.py: idx -> <<current_rank, total_countries>>
    outcome,            \* how the last computation ended: "none", "ok" or the exception
    pc,                 \* position of the run: "start" ... "stopped" / "done"
    country_list,       \* main: countries, the result of get_country_list()
    year_lim,           \* main: <<year_min, year_max>> from get_year_range()
    comparison_countries,   \* sidebar: the multiselect
    year_range,         \* sidebar: the slider, <<from, to>>
    df_main_filtered,   \* main: the primary country's rows within year_range
    df_comparison,      \* main: the rows handed to the comparison charts
    latest_year,        \* render_metrics: year of iloc[-1]
    previous_year,      \* render_metrics: year of iloc[-2], NoYear for None
    deltas,             \* app.py render_metrics: idx -> delta_<idx>
    shown,              \* app.py render_metrics: idx -> value / delta of st.metric
    df_all_previous,    \* metrics.py: the all-countries slice of the previous year
    rankings_previous,  \* metrics.py: idx -> prev_rank
    rank_shown,         \* metrics.py: idx -> value / delta / delta_color of st.metric
    \* calls of single operations and components
    fetched,            \* a direct call of load_complexity_data: arguments and result
    fig,                \* a chart component: its inputs and the traces it added
    \* a second run of the dashboard
    previous_run,       \* what the run before this one was given and what it showed
    \* the download and contact forms
    request,            \* the submitted form: its page and its fields
    mailenv,            \* os.getenv: which of the mail settings are configured
    smtp,               \* the SMTP connection: opened, tls, login, sent
    page                \* the handler: position, messages shown, data loaded, downloads

storeVars == <<table, local, storeUp, client, variant>>
uploadVars == <<up_pc, up_df, up_next, up_log>>
cacheVars == <<cache>>
dashVars == <<df_all_latest, selected_country, rankings_current, outcome>>
optVars == <<country_list, year_lim>>
pickVars == <<comparison_countries, year_range>>
seriesVars == <<df_main_filtered, df_comparison>>
valueVars == <<latest_year, previous_year, deltas, shown>>
rankVars == <<df_all_previous, rankings_previous, rank_shown>>
runVars == <<pc, optVars, pickVars, seriesVars, valueVars, rankVars>>
compVars == <<fetched, fig>>
rerunVars == <<previous_run>>
formVars == <<request, mailenv, smtp, page>>
vars == <<storeVars, uploadVars, cacheVars, dashVars, runVars, compVars, rerunVars, formVars>>

----------------------------------------------------------------------------
(* Bounds of the model *)

\* index values range over 0..MaxValue (and null)
MaxValue == 2
\* rows per insert of the upload (batch_size, 500 by default)
BatchSize == 3

----------------------------------------------------------------------------
(* Data *)

None == "None"
\* a null index value (JSON null / NaN in the DataFrame), outside Values
Null == -1

\* country names in ascending (ORDER BY country_name) order
CountryOrder == <<"Brazil", "Chile", "Peru">>
Countries == {CountryOrder[i] : i \in 1..Len(CountryOrder)}
CountryPos(c) == CHOOSE i \in 1..Len(CountryOrder) : CountryOrder[i] = c

indices ==
    << "indice_socio_cultural", "indice_mercados_negocios",
       "indice_empreendedorismo", "indice_eficiencia_governo",
       "indice_ambiente_juridico", "indice_total" >>
Indices == {indices[i] : i \in 1..Len(indices)}

Values == 0..MaxValue
ValOrNull == Values \cup {Null}

\* One observation. The six index values of the rows the model draws are
\* determined by two of them (a, b), alternating over the columns.
MkRow(c, y, a, b) ==
    [ country_name |-> c, year |-> y,
      indice_socio_cultural     |-> a,
      indice_mercados_negocios  |-> b,
      indice_empreendedorismo   |-> a,
      indice_eficiencia_governo |-> b,
      indice_ambiente_juridico  |-> a,
      indice_total              |-> b ]

\* A DataFrame: its rows in order, and whether it has columns at all.
\* pd.DataFrame([]) and pd.DataFrame() have neither rows nor columns.
DataFrame(rows) == [rows |-> rows, cols |-> Len(rows) > 0]
EmptyFrame == [rows |-> <<>>, cols |-> FALSE]

----------------------------------------------------------------------------
(* pandas Series.rank(ascending=False, method="min"), na_option "keep" *)

\* positions of the non-null entries of a column
NotNullPos(col) == {i \in 1..Len(col) : col[i] # Null}

\* the positions of S ordered by value descending (stable: by position among
\* equal values), as the sort inside rank orders them
RECURSIVE SortDesc(_, _)
SortDesc(col, S) ==
    IF S = {} THEN <<>>
    ELSE LET first == CHOOSE i \in S :
                         \A j \in S : col[i] > col[j] \/ (col[i] = col[j] /\ i <= j)
         IN  <<first>> \o SortDesc(col, S \ {first})

\* method="min": every member of a group of equal values takes the place of
\* the first member of the group in the sorted order
MinPlaceBad(col, sorted, k) ==
    \* dense ranking: the number of distinct values before place k, plus 1
    1 + Cardinality({col[sorted[j]] : j \in 1..(k-1)} \ {col[sorted[k]]})
MinPlace(col, sorted, k) ==
    CHOOSE p \in 1..k :
        /\ col[sorted[p]] = col[sorted[k]]
        /\ \A q \in 1..(p-1) : col[sorted[q]] # col[sorted[k]]

\* na_option="bottom": a null value is ranked after every other value
RankColumnBad(col) ==
    LET sorted == SortDesc(col, NotNullPos(col))
        placeOf(i) == CHOOSE k \in 1..Len(sorted) : sorted[k] = i
    IN  [i \in 1..Len(col) |->
            IF col[i] = Null THEN Len(sorted) + 1
            ELSE MinPlace(col, sorted, placeOf(i))]
RankColumn(col) ==
    LET sorted == SortDesc(col, NotNullPos(col))
        placeOf(i) == CHOOSE k \in 1..Len(sorted) : sorted[k] = i
    IN  [i \in 1..Len(col) |->
            IF col[i] = Null THEN Null
            ELSE MinPlace(col, sorted, placeOf(i))]

Column(df, idx) == [i \in 1..Len(df.rows) |-> df.rows[i][idx]]

----------------------------------------------------------------------------
(* metrics.py render_metrics, lines 32-43 and 50-59: the rank of one        *)
(* country in an all-countries slice, for the six indices in order.  The    *)
(* first exception ends the computation.                                    *)

\* df[df["country_name"] == c][f"rank_{idx}"].values : the ranks of the rows of c
RanksOf(df, idx, c) ==
    LET ranks == RankColumn(Column(df, idx))
        RECURSIVE pick(_)
        pick(i) == IF i > Len(df.rows) THEN <<>>
                   ELSE (IF df.rows[i].country_name = c THEN <<ranks[i]>> ELSE <<>>)
                        \o pick(i + 1)
    IN  pick(1)

\* the outcome of one pass of the loop body for idx
RankStepBad(df, idx, c) ==
    \* total_countries taken as the number of ranked rows
    IF ~df.cols THEN [status |-> "KeyError"]
    ELSE LET v == RanksOf(df, idx, c)
         IN  IF v = <<>> THEN [status |-> "IndexError"]
             ELSE IF v[1] = Null THEN [status |-> "ValueError"]
             ELSE [status |-> "ok", rank |-> v[1],
                   total |-> Cardinality(NotNullPos(Column(df, idx)))]
\* a variant that places a country without a row after the last one
RankStepDefault(df, idx, c) ==
    IF ~df.cols THEN [status |-> "KeyError"]
    ELSE LET v == RanksOf(df, idx, c)
         IN  IF v = <<>>
             THEN [status |-> "ok", rank |-> Len(df.rows) + 1, total |-> Len(df.rows)]
             ELSE IF v[1] = Null THEN [status |-> "ValueError"]
             ELSE [status |-> "ok", rank |-> v[1], total |-> Len(df.rows)]
RankStep(df, idx, c) ==
    IF ~df.cols THEN [status |-> "KeyError"]                 \* df[idx]
    ELSE LET v == RanksOf(df, idx, c)
         IN  IF v = <<>> THEN [status |-> "IndexError"]      \* .values[0]
             ELSE IF v[1] = Null THEN [status |-> "ValueError"]   \* int(nan)
             ELSE [status |-> "ok", rank |-> v[1], total |-> Len(df.rows)]

\* the position of the first index whose pass raises, 0 if none does
FirstFailure(df, c) ==
    LET bad == {k \in 1..Len(indices) : RankStep(df, indices[k], c).status # "ok"}
    IN  IF bad = {} THEN 0 ELSE CHOOSE k \in bad : \A j \in bad : k <= j

\* the whole loop: the status and, when it ran through, idx -> <<rank, total>>
Rankings(df, c) ==
    LET f == FirstFailure(df, c)
    IN  IF f # 0
        THEN [status |-> RankStep(df, indices[f], c).status, ranks |-> <<>>]
        ELSE [status |-> "ok",
              ranks  |-> [idx \in Indices |->
                            <<RankStep(df, idx, c).rank, RankStep(df, idx, c).total>>]]

----------------------------------------------------------------------------
(* The store: one table, at most one row per (country_name, year) *)

Years == 2021..2023
Keys == Countries \X Years
FirstYear == CHOOSE y \in Years : \A z \in Years : y <= z
LastYear == CHOOSE y \in Years : \A z \in Years : y >= z

Absent == <<>>
Cells == {Absent} \cup (ValOrNull \X ValOrNull)

\* the rows of country c with a year in ys, by year ascending
RECURSIVE RowsFrom(_, _, _, _)
RowsFrom(t, c, ys, y) ==
    IF y > LastYear THEN <<>>
    ELSE (IF y \in ys /\ t[<<c, y>>] # Absent
          THEN <<MkRow(c, y, t[<<c, y>>][1], t[<<c, y>>][2])>> ELSE <<>>)
         \o RowsFrom(t, c, ys, y + 1)

\* SELECT * WHERE country_name IN cs AND year IN ys ORDER BY country_name, year
RECURSIVE Select(_, _, _, _)
Select(t, cs, ys, k) ==
    IF k > Len(CountryOrder) THEN <<>>
    ELSE (IF CountryOrder[k] \in cs THEN RowsFrom(t, CountryOrder[k], ys, FirstYear)
          ELSE <<>>)
         \o Select(t, cs, ys, k + 1)

EmptyTable == [k \in Keys |-> Absent]

\* an optional argument: None, or a list / tuple
NoArg == [some |-> FALSE, v |-> <<>>]
Arg(list) == [some |-> TRUE, v |-> list]
\* "if countries:" / "if years:" : None and the empty list are both false
Truthy(a) == a.some /\ a.v # <<>>
Elems(q) == {q[i] : i \in 1..Len(q)}

\* the result of a fetch body: returned, or raised
Returned(v) == [status |-> "ok", value |-> v]
Raised == [status |-> "raise", value |-> <<>>]

YEAR_FALLBACK_MIN == 2015
YEAR_FALLBACK_MAX == 2023
LOADER_TTL == 3600

\* The body of load_complexity_data, not memoized.  ok: the client exists and
\* the request succeeds.  update_load_data.py catches every failure and
\* returns pd.DataFrame(); data_loader.py lets the exception through, and
\* pd.read_sql keeps the columns of an empty result.  (RawLoadRaising: a
\* variant of the first that lets the failure through.)
RawLoadRaising(v, t, ok, countries, years) ==
    LET cs == IF Truthy(countries) THEN Elems(countries.v) ELSE Countries
        ys == IF Truthy(years) THEN Elems(years.v) ELSE Years
        rows == Select(t, cs, ys, 1)
    IN  IF ok THEN Returned(DataFrame(rows)) ELSE Raised
RawLoad(v, t, ok, countries, years) ==
    LET cs == IF Truthy(countries) THEN Elems(countries.v) ELSE Countries
        ys == IF Truthy(years) THEN Elems(years.v) ELSE Years
        rows == Select(t, cs, ys, 1)
    IN  IF v = "supabase"
        THEN IF ok THEN Returned(DataFrame(rows)) ELSE Returned(EmptyFrame)
        ELSE IF ok THEN Returned([rows |-> rows, cols |-> TRUE]) ELSE Raised

\* the countries with at least one row, in ascending order
RECURSIVE CountryNames(_, _)
CountryNames(t, k) ==
    IF k > Len(CountryOrder) THEN <<>>
    ELSE (IF \E y \in Years : t[<<CountryOrder[k], y>>] # Absent
          THEN <<CountryOrder[k]>> ELSE <<>>)
         \o CountryNames(t, k + 1)

\* the body of get_country_list
RawCountryList(v, t, ok) ==
    IF v = "supabase"
    THEN IF ok THEN Returned(CountryNames(t, 1)) ELSE Returned(<<>>)
    ELSE IF ok THEN Returned(CountryNames(t, 1)) ELSE Raised

YearsPresent(t) == {y \in Years : \E c \in Countries : t[<<c, y>>] # Absent}
MinOf(S) == CHOOSE y \in S : \A z \in S : y <= z
MaxOf(S) == CHOOSE y \in S : \A z \in S : y >= z

\* the body of get_year_range; on an empty table data_loader.py raises at
\* int(None)
RawYearRange(v, t, ok) ==
    IF v = "supabase"
    THEN IF ok /\ YearsPresent(t) # {}
         THEN Returned(<<MinOf(YearsPresent(t)), MaxOf(YearsPresent(t))>>)
         ELSE Returned(<<YEAR_FALLBACK_MIN, YEAR_FALLBACK_MAX>>)
    ELSE IF ok /\ YearsPresent(t) # {}
         THEN Returned(<<MinOf(YearsPresent(t)), MaxOf(YearsPresent(t))>>)
         ELSE Raised

\* the body of operation op on arguments (countries, years)
Raw(v, t, ok, op, countries, years) ==
    CASE op = "load_complexity_data" -> RawLoad(v, t, ok, countries, years)
      [] op = "get_country_data"     -> RawLoad(v, t, ok, countries, NoArg)
      [] op = "get_country_list"     -> RawCountryList(v, t, ok)
      [] op = "get_year_range"       -> RawYearRange(v, t, ok)

----------------------------------------------------------------------------
(* st.cache_data(ttl=...): one entry per function and argument values *)

\* the key names the function only
KeyBad(op, countries, years) == [op |-> op, countries |-> NoArg, years |-> NoArg]
\* the function and every argument value are part of the key
Key(op, countries, years) == [op |-> op, countries |-> countries, years |-> years]

\* CACHE_TTL = None in update_load_data.py, ttl=3600 in data_loader.py
HasTTL(v) == v = "sql"

\* an entry is served while it exists and is younger than the time-to-live
\* (FreshBad: however old it is; FreshNever: no entry is ever served)
FreshNever(c, k, v) == FALSE
FreshBad(c, k, v) == k \in DOMAIN c
Fresh(c, k, v) ==
    /\ k \in DOMAIN c
    /\ (HasTTL(v) => c[k].age < LOADER_TTL)

\* what a fetch can see of the store: its table, or that it is unavailable
StoreState(t, ok) ==
    IF ok THEN [table |-> t, ok |-> TRUE] ELSE [table |-> EmptyTable, ok |-> FALSE]

\* src (not program state): the store state the value was computed from
Put(c, k, val, src) ==
    [x \in DOMAIN c \cup {k} |->
        IF x = k THEN [value |-> val, age |-> 0, src |-> src] ELSE c[x]]

\* a memoized call of a function that contacts the store itself
\* (load_complexity_data, get_country_list, get_year_range)
CachedDirect(c, v, t, ok, op, countries, years) ==
    LET k == Key(op, countries, years)
    IN  IF Fresh(c, k, v)
        THEN [cache |-> c, status |-> "ok", value |-> c[k].value,
              hit |-> TRUE, contacted |-> FALSE]
        ELSE LET r == Raw(v, t, ok, op, countries, years)
             IN  [cache |-> IF r.status = "ok"
                            THEN Put(c, k, r.value, StoreState(t, ok))
                            ELSE c,
                  status |-> r.status, value |-> r.value,
                  hit |-> FALSE, contacted |-> (v = "sql" \/ client)]

\* get_country_data(country_name): memoized, and its body calls the memoized
\* load_complexity_data(countries=[country_name])
CachedCountryData(c, v, t, ok, name) ==
    LET k == Key("get_country_data", Arg(<<name>>), NoArg)
    IN  IF Fresh(c, k, v)
        THEN [cache |-> c, status |-> "ok", value |-> c[k].value,
              hit |-> TRUE, contacted |-> FALSE]
        ELSE LET inner == CachedDirect(c, v, t, ok, "load_complexity_data",
                                    Arg(<<name>>), NoArg)
                 ik == Key("load_complexity_data", Arg(<<name>>), NoArg)
             IN  [cache |-> IF inner.status = "ok"
                            THEN Put(inner.cache, k, inner.value, inner.cache[ik].src)
                            ELSE inner.cache,
                  status |-> inner.status, value |-> inner.value,
                  hit |-> FALSE, contacted |-> inner.contacted]

Cached(c, v, t, ok, op, countries, years) ==
    IF op = "get_country_data"
    THEN CachedCountryData(c, v, t, ok, countries.v[1])
    ELSE CachedDirect(c, v, t, ok, op, countries, years)

\* the table the fetch operations read, and whether a request succeeds:
\* update_load_data.py reads the Supabase table through the client,
\* data_loader.py the local database
ReadTable == IF variant = "supabase" THEN table ELSE local
ReadOk == IF variant = "supabase" THEN client /\ storeUp ELSE storeUp

----------------------------------------------------------------------------
(* upload_data_to_supabase: clear the table, then insert batch by batch *)

\* the rows of a table in the order the local query returns them
AllRows(t) == Select(t, Countries, Years, 1)

\* the table after inserting rows
RECURSIVE Insert(_, _)
Insert(t, rows) ==
    IF rows = <<>> THEN t
    ELSE Insert([t EXCEPT ![<<Head(rows).country_name, Head(rows).year>>] =
                    <<Head(rows).indice_socio_cultural, Head(rows).indice_total>>],
                Tail(rows))

\* df.iloc[start:end], a variant that takes every remaining row, and one
\* that stops one row early
SliceShort(rows, start, end) ==
    SubSeq(rows, start + 1, (IF end < Len(rows) THEN end ELSE Len(rows)) - 1)
SliceAll(rows, start, end) == SubSeq(rows, start + 1, Len(rows))
Slice(rows, start, end) ==
    SubSeq(rows, start + 1, IF end < Len(rows) THEN end ELSE Len(rows))

\* lines 236-258: read the local rows; nothing to upload leaves the table
\* alone, otherwise every row of the table is deleted
UploadClear ==
    /\ up_pc = "idle"
    /\ IF ~client \/ AllRows(local) = <<>>
       THEN /\ up_pc' = "done"
            /\ UNCHANGED <<table, up_df, up_next, up_log>>
       ELSE IF ~storeUp
       THEN /\ up_pc' = "aborted"
            /\ up_log' = <<"upload_error">>
            /\ UNCHANGED <<table, up_df, up_next>>
       ELSE /\ up_df' = AllRows(local)
            /\ table' = EmptyTable
            /\ up_next' = 0
            /\ up_log' = <<>>
            /\ up_pc' = "insert"
    /\ UNCHANGED <<local, storeUp, client, variant, cacheVars, dashVars, runVars, compVars, rerunVars, formVars>>

\* lines 264-276, 281: one pass of the insert loop.  The response may carry
\* an error (reported, the loop goes on) or the request may raise (the
\* upload ends there).  up_log keeps what is printed.
UploadBatch(result) ==
    /\ up_pc = "insert"
    /\ up_next < Len(up_df)
    /\ CASE result = "ok" ->
              /\ storeUp
              /\ table' = Insert(table, Slice(up_df, up_next, up_next + BatchSize))
              /\ up_next' = up_next + BatchSize
              /\ up_pc' = IF up_next + BatchSize < Len(up_df) THEN "insert" ELSE "done"
              /\ up_log' = Append(up_log, "inserted")
         [] result = "error" ->
              /\ storeUp
              /\ table' = table
              /\ up_next' = up_next + BatchSize
              /\ up_pc' = IF up_next + BatchSize < Len(up_df) THEN "insert" ELSE "done"
              /\ up_log' = Append(up_log, "batch_error")
         [] result = "raise" ->
              /\ table' = table
              /\ up_next' = up_next
              /\ up_pc' = "aborted"
              /\ up_log' = Append(up_log, "upload_error")
    /\ UNCHANGED <<up_df, local, storeUp, client, variant, cacheVars, dashVars, runVars, compVars, rerunVars, formVars>>

\* the store becomes unreachable, or reachable again
StoreFlip ==
    /\ storeUp' = ~storeUp
    /\ UNCHANGED <<table, local, client, variant, uploadVars, cacheVars, dashVars, runVars, compVars, rerunVars, formVars>>

----------------------------------------------------------------------------
(* The memoized fetch operations called in any order, while the upload      *)
(* rewrites the table, the store comes and goes, and time passes.           *)

\* the table the dashboard starts from
Seed ==
    [k \in Keys |->
        CASE k = <<"Brazil", 2021>> -> <<1, 1>>
          [] k = <<"Brazil", 2022>> -> <<1, 2>>
          [] k = <<"Brazil", 2023>> -> <<2, 1>>
          [] k = <<"Chile", 2022>>  -> <<2, 2>>
          [] k = <<"Chile", 2023>>  -> <<2, 2>>
          [] k = <<"Peru", 2023>>   -> <<0, Null>>
          [] OTHER -> Absent]

\* a later state of the local database: Brazil 2023 dropped, Peru 2022 added
Revised ==
    [k \in Keys |->
        CASE k = <<"Brazil", 2023>> -> Absent
          [] k = <<"Peru", 2022>>   -> <<2, 0>>
          [] OTHER -> Seed[k]]

UploadIdle == up_pc = "idle" /\ up_df = <<>> /\ up_next = 0 /\ up_log = <<>>
CacheIdle == cache = <<>>
\* render_metrics: previous_year = None
NoYear == 0
\* no run before this one, and no form submitted
PagesIdle ==
    /\ previous_run = <<>>
    /\ request = <<>> /\ mailenv = <<>> /\ smtp = <<>> /\ page = <<>>
RunBlank ==
    /\ pc = "start"
    /\ country_list = <<>> /\ year_lim = <<NoYear, NoYear>>
    /\ comparison_countries = <<>> /\ year_range = <<NoYear, NoYear>>
    /\ df_main_filtered = EmptyFrame /\ df_comparison = EmptyFrame
    /\ latest_year = NoYear /\ previous_year = NoYear
    /\ deltas = <<>> /\ shown = <<>>
    /\ df_all_previous = EmptyFrame
    /\ rankings_previous = <<>> /\ rank_shown = <<>>
    /\ fetched = <<>> /\ fig = <<>>
RunIdle == RunBlank /\ PagesIdle
DashIdle ==
    /\ df_all_latest = EmptyFrame
    /\ selected_country = None
    /\ rankings_current = <<>>
    /\ outcome = "none"
    /\ RunIdle

\* the calls the behaviours make: each operation, and load_complexity_data
\* with several argument values
FetchCalls ==
    { <<"get_country_list", NoArg, NoArg>>,
      <<"get_year_range", NoArg, NoArg>>,
      <<"get_country_data", Arg(<<"Brazil">>), NoArg>>,
      <<"load_complexity_data", Arg(<<"Brazil">>), NoArg>>,
      <<"load_complexity_data", NoArg, Arg(<<LastYear>>)>> }

TickLen == LOADER_TTL \div 2

\* the external pipeline rewrites the local database
EtlRevise ==
    /\ local = Seed
    /\ local' = Revised
    /\ UNCHANGED <<table, storeUp, client, variant, uploadVars, cacheVars, dashVars, runVars, compVars, rerunVars, formVars>>

\* a deployment of update_load_data.py has the Supabase client; one of
\* data_loader.py reads the local database and has none
CacheInit ==
    /\ table = Seed
    /\ local = Seed
    /\ storeUp = TRUE
    /\ variant \in {"supabase", "sql"}
    /\ client = (variant = "supabase")
    /\ UploadIdle /\ CacheIdle /\ DashIdle

\* one call of a memoized operation
Call(op, countries, years) ==
    /\ cache' = Cached(cache, variant, ReadTable, ReadOk, op, countries, years).cache
    /\ UNCHANGED <<storeVars, uploadVars, dashVars, runVars, compVars, rerunVars, formVars>>

\* TickLen seconds pass: every entry kept under a time-to-live grows older
\* (an age at or past the time-to-live is kept as the time-to-live)
Older(a) == IF a + TickLen < LOADER_TTL THEN a + TickLen ELSE LOADER_TTL
Tick ==
    /\ cache' = [k \in DOMAIN cache |->
                    IF HasTTL(variant)
                    THEN [cache[k] EXCEPT !.age = Older(cache[k].age)]
                    ELSE cache[k]]
    /\ UNCHANGED <<storeVars, uploadVars, dashVars, runVars, compVars, rerunVars, formVars>>

CacheNext ==
    \/ \E f \in FetchCalls : Call(f[1], f[2], f[3])
    \/ Tick
    \/ StoreFlip
    \/ EtlRevise
    \/ UploadClear
    \/ UploadBatch("ok")

SpecCache == CacheInit /\ [][CacheNext]_vars

----------------------------------------------------------------------------
(* Properties of the memoized fetch operations *)

\* what a memoized call of f returns now, and what its body returns now
Memo(f) == Cached(cache, variant, ReadTable, ReadOk, f[1], f[2], f[3])
Unmemo(f) == Raw(variant, ReadTable, ReadOk, f[1], f[2], f[3])
KeyOf(f) == Key(f[1], f[2], f[3])
\* what the body of f returns in store state src
UnmemoAt(f, src) == Raw(variant, src.table, src.ok, f[1], f[2], f[3])
SameResult(r1, r2) ==
    r1.status = r2.status /\ (r1.status = "ok" => r1.value = r2.value)

\* C9 as stated: at every moment, whatever the store did in between, a
\* memoized call returns what the unmemoized call would return now.
C9_Original == \A f \in FetchCalls : SameResult(Memo(f), Unmemo(f))

\* C9 as amended: a memoized call returns what the unmemoized operation
\* returned in the store state (contents and availability) its entry was
\* filled from; it returns what the unmemoized call would return now
\* whenever that store state is the present one, and whenever it is not
\* served from an entry at all.
C9_SnapshotAtFill ==
    \A f \in FetchCalls :
       LET m == Memo(f)
       IN  /\ m.status = "ok" =>
                /\ KeyOf(f) \in DOMAIN m.cache
                /\ m.value = m.cache[KeyOf(f)].value
                /\ SameResult(m, UnmemoAt(f, m.cache[KeyOf(f)].src))
                /\ (m.cache[KeyOf(f)].src = StoreState(ReadTable, ReadOk)
                      => SameResult(m, Unmemo(f)))
           /\ m.status # "ok" => (~m.hit /\ SameResult(m, Unmemo(f)))

\* an entry filled before the store changed is served after the change
C9_Witness ==
    \E f \in FetchCalls :
       /\ Memo(f).hit
       /\ cache[KeyOf(f)].src # StoreState(ReadTable, ReadOk)
       /\ ~SameResult(Memo(f), Unmemo(f))

Expired(k) == HasTTL(variant) /\ cache[k].age >= LOADER_TTL

\* C10: one entry per (operation, arguments).  A call that finds its entry
\* younger than the time-to-live (any entry, when there is none) returns the
\* stored snapshot, does not contact the store and leaves the cache alone; a
\* call that finds it expired runs the operation again (which contacts the
\* store, or for get_country_data calls the memoized load_complexity_data);
\* calls with different
\* arguments have different entries; and an entry, once filled, is never
\* removed and is replaced only when its time-to-live has passed: no change
\* of the table, of the local database or of the availability of the store
\* touches the cache.
C10_MemoPerKey ==
    [][ /\ \A f \in FetchCalls :
             LET k == KeyOf(f)
                 m == Memo(f)
             IN  /\ (k \in DOMAIN cache /\ ~Expired(k))
                      => ( /\ m.hit /\ ~m.contacted
                           /\ m.status = "ok" /\ m.value = cache[k].value
                           /\ m.cache = cache )
                 /\ (k \in DOMAIN cache /\ Expired(k))
                      => (~m.hit /\ (f[1] # "get_country_data" => m.contacted))
                 /\ \A g \in FetchCalls \ {f} : KeyOf(g) # k
        /\ \A k \in DOMAIN cache :
             /\ k \in DOMAIN cache'
             /\ (cache'[k].value # cache[k].value \/ cache'[k].src # cache[k].src)
                  => Expired(k)
             /\ ~HasTTL(variant) => cache'[k] = cache[k]
        /\ (table' # table \/ local' # local \/ storeUp' # storeUp) => cache' = cache
      ]_vars

\* an entry outlives a change of the store, and an entry kept under a
\* time-to-live has expired
C10_Witness ==
    \E k \in DOMAIN cache :
       /\ cache[k].src # StoreState(ReadTable, ReadOk)
       /\ ~Expired(k)
       /\ up_pc = "done"

\* the operations that contact the store themselves
DirectCalls == {f \in FetchCalls : f[1] # "get_country_data"}
\* what update_load_data.py returns from its "except" branches
Fallback(op) ==
    CASE op = "load_complexity_data" -> EmptyFrame
      [] op = "get_country_list"     -> <<>>
      [] op = "get_year_range"       -> <<YEAR_FALLBACK_MIN, YEAR_FALLBACK_MAX>>

\* C24: in update_load_data.py (CACHE_TTL = None) a call of
\* load_complexity_data, get_country_list or get_year_range that fails does
\* not raise: it returns its fallback (empty table, empty list, (2015, 2023))
\* and the fallback is stored under the key a success is stored under; from
\* then on every call with the same arguments is served that fallback from
\* the cache, without contacting the store, whether the store is reachable
\* again or not, and the entry is never replaced.
C24_FallbackCached ==
    [][ variant = "supabase" =>
          \A f \in DirectCalls :
             LET k == KeyOf(f)
                 m == Memo(f)
             IN  /\ (k \notin DOMAIN cache /\ ~ReadOk)
                      => ( /\ m.status = "ok" /\ m.value = Fallback(f[1])
                           /\ DOMAIN m.cache = DOMAIN cache \cup {k}
                           /\ m.cache[k].value = Fallback(f[1])
                           /\ ~m.cache[k].src.ok )
                 /\ (k \notin DOMAIN cache /\ ReadOk)
                      => (k \in DOMAIN m.cache /\ m.cache[k].src.ok)
                 /\ (k \in DOMAIN cache /\ ~cache[k].src.ok)
                      => ( /\ m.hit /\ ~m.contacted
                           /\ m.status = "ok" /\ m.value = Fallback(f[1])
                           /\ k \in DOMAIN cache' /\ cache'[k] = cache[k] )
      ]_vars

\* the store is reachable again and holds rows, and a call is still served
\* the fallback of an earlier failure
C24_Witness ==
    /\ variant = "supabase" /\ ReadOk /\ table = Seed
    /\ \E f \in DirectCalls :
          /\ KeyOf(f) \in DOMAIN cache
          /\ ~cache[KeyOf(f)].src.ok
          /\ Memo(f).hit /\ Memo(f).value = Fallback(f[1])
          /\ Unmemo(f).value # Fallback(f[1])

\* the table that holds exactly the given rows
TableOf(rows) == Insert(EmptyTable, rows)
\* an entry filled while the insert loop was running
FilledDuringUpload(e) ==
    /\ e.src.ok
    /\ e.src.table # TableOf(up_df)
    /\ \E n \in 0..(Len(up_df) - 1) : e.src.table = TableOf(SubSeq(up_df, 1, n))

\* no entry answers the call: neither its own nor, for get_country_data, the
\* one of the load_complexity_data call it makes
Uncached(f) ==
    /\ KeyOf(f) \notin DOMAIN cache
    /\ f[1] = "get_country_data" =>
          Key("load_complexity_data", f[2], NoArg) \notin DOMAIN cache

\* C25: upload_data_to_supabase empties the table and then inserts the local
\* rows batch by batch.  While the insert loop runs the table holds only the
\* rows of the batches inserted so far, never all of them; a fetch that
\* no cache entry answers then returns what that empty or partial table gives and
\* stores it; and under CACHE_TTL = None no step (the rest of the upload
\* included) removes or replaces an entry, so it is served after the upload
\* has completed.
C25_UploadNotAtomic ==
    /\ [](up_pc = "insert" =>
            /\ up_next < Len(up_df)
            /\ table = TableOf(SubSeq(up_df, 1, up_next))
            /\ AllRows(table) # up_df
            /\ Len(AllRows(table)) < Len(up_df)
            /\ \A f \in FetchCalls :
                  (ReadOk /\ Uncached(f)) =>
                     /\ Memo(f).value = UnmemoAt(f, [table |-> table, ok |-> TRUE]).value
                     /\ Memo(f).cache[KeyOf(f)].value = Memo(f).value
                     /\ Memo(f).cache[KeyOf(f)].src.table = table)
    /\ [][variant = "supabase" =>
            \A k \in DOMAIN cache : k \in DOMAIN cache' /\ cache'[k] = cache[k]]_vars
    /\ [](variant = "supabase" =>
            \A f \in FetchCalls :
               KeyOf(f) \in DOMAIN cache =>
                  (Memo(f).hit /\ Memo(f).value = cache[KeyOf(f)].value))

\* the upload has completed, the table holds every local row, and a call is
\* served rows fetched from the partial table of the insert loop
C25_Witness ==
    /\ up_pc = "done" /\ up_df # <<>> /\ table = TableOf(up_df) /\ ReadOk
    /\ \E f \in FetchCalls :
          /\ KeyOf(f) \in DOMAIN cache
          /\ FilledDuringUpload(cache[KeyOf(f)])
          /\ Memo(f).hit
          /\ Memo(f).value # Unmemo(f).value

----------------------------------------------------------------------------
(* Ranking of one year-slice: the inputs are every slice over the           *)
(* countries with values in ValOrNull; the action ranks one country.        *)

\* the rows of a slice, ordered by country name, from country -> cell
RECURSIVE SliceRows(_, _, _)
SliceRows(cells, y, k) ==
    IF k > Len(CountryOrder) THEN <<>>
    ELSE LET c == CountryOrder[k]
         IN  (IF cells[c] = Absent THEN <<>>
              ELSE <<MkRow(c, y, cells[c][1], cells[c][2])>>)
             \o SliceRows(cells, y, k + 1)

RankInit ==
    /\ \E cells \in [Countries -> Cells] :
           df_all_latest = DataFrame(SliceRows(cells, LastYear, 1))
    /\ selected_country = None
    /\ rankings_current = <<>>
    /\ outcome = "none"
    /\ table = EmptyTable /\ local = EmptyTable
    /\ storeUp = TRUE /\ client = TRUE /\ variant = "supabase"
    /\ UploadIdle /\ CacheIdle /\ RunIdle

RankRequest(c) ==
    /\ outcome = "none"
    /\ selected_country' = c
    /\ LET r == Rankings(df_all_latest, c)
       IN  /\ rankings_current' = r.ranks
           /\ outcome' = r.status
    /\ UNCHANGED <<df_all_latest, storeVars, uploadVars, cacheVars, runVars, compVars, rerunVars, formVars>>

RankNext == \E c \in Countries : RankRequest(c)

SpecRank == RankInit /\ [][RankNext]_vars

----------------------------------------------------------------------------
(* Properties of the ranking *)

RowsOf(df, c) == {i \in 1..Len(df.rows) : df.rows[i].country_name = c}
\* the value of country c for idx in the slice (c has a row)
ValueIn(df, idx, c) == df.rows[CHOOSE i \in RowsOf(df, c) : TRUE][idx]
\* the rows holding a non-null value strictly greater than v
Greater(df, idx, v) ==
    {i \in 1..Len(df.rows) : df.rows[i][idx] # Null /\ df.rows[i][idx] > v}
\* the rows that receive a rank for idx
Ranked(df, idx) == {i \in 1..Len(df.rows) : df.rows[i][idx] # Null}
\* the slice without the rows whose value for idx is null
RECURSIVE DropNull(_, _)
DropNull(rows, idx) ==
    IF rows = <<>> THEN <<>>
    ELSE (IF Head(rows)[idx] = Null THEN <<>> ELSE <<Head(rows)>>)
         \o DropNull(Tail(rows), idx)

\* C1: for every slice and each of the six indices, the rank computed for a
\* country is 1 + the number of countries of the slice with a strictly
\* greater value (competition ranking): countries with equal values get
\* equal ranks and the next lower value follows the whole tied group.
C1_CompetitionRank ==
    outcome = "ok" =>
      \A idx \in Indices :
        LET v == ValueIn(df_all_latest, idx, selected_country)
        IN  /\ rankings_current[idx][1] =
                 1 + Cardinality(Greater(df_all_latest, idx, v))
            /\ \A c2 \in Countries \ {selected_country} :
                 ( /\ RowsOf(df_all_latest, c2) # {}
                   /\ ValueIn(df_all_latest, idx, c2) = v )
                 => RankStep(df_all_latest, idx, c2).rank = rankings_current[idx][1]

\* two countries tied for the best value, and the ranked country third
C1_Witness ==
    /\ outcome = "ok"
    /\ \E idx \in Indices :
         /\ rankings_current[idx][1] = 3
         /\ \E c1, c2 \in Countries \ {selected_country} :
              /\ c1 # c2
              /\ RankStep(df_all_latest, idx, c1).status = "ok"
              /\ RankStep(df_all_latest, idx, c2).status = "ok"
              /\ RankStep(df_all_latest, idx, c1).rank = 1
              /\ RankStep(df_all_latest, idx, c2).rank = 1

\* C2 as stated: total_countries is the number of countries that receive a
\* rank for the index, every rank lies in 1..total_countries, and a country
\* holding the maximum value has rank 1.
C2_Original ==
    outcome = "ok" =>
      \A idx \in Indices :
        /\ rankings_current[idx][2] = Cardinality(Ranked(df_all_latest, idx))
        /\ rankings_current[idx][1] \in 1..rankings_current[idx][2]
        /\ (Greater(df_all_latest, idx,
                    ValueIn(df_all_latest, idx, selected_country)) = {}
             => rankings_current[idx][1] = 1)

\* C2 as amended: total_countries is the number of rows of the year-slice,
\* the countries whose value for the index is null included; every rank is
\* an integer in 1..(number of ranked countries), hence in
\* 1..total_countries; a country holding the maximum value has rank 1; and
\* total_countries is the number of ranked countries when no value of the
\* index is null.
C2_TotalCountsRows ==
    outcome = "ok" =>
      \A idx \in Indices :
        /\ rankings_current[idx][2] = Len(df_all_latest.rows)
        /\ rankings_current[idx][1] \in 1..Cardinality(Ranked(df_all_latest, idx))
        /\ Cardinality(Ranked(df_all_latest, idx)) <= rankings_current[idx][2]
        /\ (Greater(df_all_latest, idx,
                    ValueIn(df_all_latest, idx, selected_country)) = {}
             => rankings_current[idx][1] = 1)
        /\ ((\A i \in 1..Len(df_all_latest.rows) : df_all_latest.rows[i][idx] # Null)
             => rankings_current[idx][2] = Cardinality(Ranked(df_all_latest, idx)))

\* a ranked country beside a country whose value is null: the total counts both
C2_Witness ==
    /\ outcome = "ok"
    /\ \E idx \in Indices :
         /\ Cardinality(Ranked(df_all_latest, idx)) < Len(df_all_latest.rows)
         /\ rankings_current[idx][2] = Len(df_all_latest.rows)
         /\ rankings_current[idx][1] = 1

\* C8: a country whose value for an index is null receives no rank, the
\* request for its rank raises (ValueError) instead of placing it last, it
\* still counts in total_countries, and the other countries are ranked as if
\* its row were not in the slice.
C8_NullNotRanked ==
    /\ ( /\ outcome # "none"
         /\ RowsOf(df_all_latest, selected_country) # {}
         /\ \E idx \in Indices :
               ValueIn(df_all_latest, idx, selected_country) = Null )
       => (outcome = "ValueError" /\ rankings_current = <<>>)
    /\ outcome = "ok" =>
         \A idx \in Indices :
            /\ rankings_current[idx][2] = Len(df_all_latest.rows)
            /\ rankings_current[idx][1] =
                 RankStep(DataFrame(DropNull(df_all_latest.rows, idx)),
                          idx, selected_country).rank

\* the rank of a null-valued country was requested, in a slice where another
\* country is ranked
C8_Witness ==
    /\ outcome = "ValueError"
    /\ \E idx \in Indices :
         /\ ValueIn(df_all_latest, idx, selected_country) = Null
         /\ Ranked(df_all_latest, idx) # {}


----------------------------------------------------------------------------
(* One run of the dashboard page: main of app.py up to its render_metrics   *)
(* (values and value deltas), then the ranking component render_metrics of  *)
(* src/components/metrics.py.  main does not call the component itself; it  *)
(* is given what its signature names, the df_main_filtered and the          *)
(* selected_country of the run.  Both take their fetch operations from      *)
(* update_load_data.py, which never raise.                                  *)

\* df.iloc[-k], with a variant counting from the front
IlocBad(df, k) == df.rows[k]
Iloc(df, k) == df.rows[Len(df.rows) + 1 - k]

\* a delta: None, nan, or a number
NoDelta == [kind |-> "None", v |-> 0]
NaN == [kind |-> "nan", v |-> 0]
Num(n) == [kind |-> "num", v |-> n]
\* latest - previous on floats (nan if either is), and a variant with the
\* operands exchanged
MinusBad(a, b) == IF a = Null \/ b = Null THEN NaN ELSE Num(b - a)
Minus(a, b) == IF a = Null \/ b = Null THEN NaN ELSE Num(a - b)

\* app.py render_metrics: delta_<idx>; the variant reports 0 for a series of
\* one observation
ValueDeltasBad(df) ==
    [idx \in Indices |->
        IF Len(df.rows) > 1 THEN Minus(Iloc(df, 1)[idx], Iloc(df, 2)[idx])
        ELSE Num(0)]
ValueDeltas(df) ==
    [idx \in Indices |->
        IF Len(df.rows) > 1 THEN Minus(Iloc(df, 1)[idx], Iloc(df, 2)[idx])
        ELSE NoDelta]
\* previous_year: the year of the observation before the last one of the
\* series (None for one observation); the variant takes the calendar year
\* before the last one
PreviousYearCalendar(df) == IF Len(df.rows) > 1 THEN Iloc(df, 1).year - 1 ELSE NoYear
PreviousYear(df) == IF Len(df.rows) > 1 THEN Iloc(df, 2).year ELSE NoYear

\* the text handed to st.metric: absent (None), "nan", or a sign and digits
NoText == [some |-> FALSE, neg |-> FALSE, nan |-> FALSE, digits |-> 0]
NanText == [some |-> TRUE, neg |-> FALSE, nan |-> TRUE, digits |-> 0]
Text(neg, digits) == [some |-> TRUE, neg |-> neg, nan |-> FALSE, digits |-> digits]
Abs(n) == IF n < 0 THEN 0 - n ELSE n
\* f"{x:.2f}" of x = n * 0.004: the hundredths nearest to |x| (no n is a tie)
Hundredths(n) == (4 * Abs(n) + 5) \div 10
FormatValue(v) == IF v = Null THEN NanText ELSE Text(v < 0, Hundredths(v))
\* f"{delta:.2f} p.p" if delta is not None else None
FormatValueDelta(d) ==
    CASE d.kind = "None" -> NoText
      [] d.kind = "nan"  -> NanText
      [] OTHER           -> Text(d.v < 0, Hundredths(d.v))
ValueShown(df, ds) ==
    [idx \in Indices |->
        [value |-> FormatValue(Iloc(df, 1)[idx]), delta |-> FormatValueDelta(ds[idx])]]

\* metrics.py: the card of one index; the variant subtracts the other way
RankCardBad(rank, prev_year, prev, idx) ==
    IF prev_year # NoYear /\ idx \in DOMAIN prev
    THEN LET delta_val == prev[idx] - rank
         IN  [value |-> rank,
              delta |-> Text(delta_val < 0, Abs(delta_val)),
              delta_color |-> IF delta_val # 0 THEN "inverse" ELSE "off"]
    ELSE [value |-> rank, delta |-> NoText, delta_color |-> "off"]
RankCard(rank, prev_year, prev, idx) ==
    IF prev_year # NoYear /\ idx \in DOMAIN prev
    THEN LET delta_val == rank - prev[idx]
         IN  [value |-> rank,
              delta |-> Text(delta_val < 0, Abs(delta_val)),      \* "+d", "-d" or "0"
              delta_color |-> IF delta_val # 0 THEN "inverse" ELSE "off"]
    ELSE [value |-> rank, delta |-> NoText, delta_color |-> "off"]
RankShown(cur, prev_year, prev) ==
    [idx \in Indices |-> RankCard(cur[idx][1], prev_year, prev, idx)]

\* st.metric: no indicator without a delta; gray when delta_color is "off";
\* otherwise a text starting with "-" is red ("normal") or green ("inverse"),
\* any other text green ("normal") or red ("inverse")
Indicator(delta, delta_color) ==
    IF ~delta.some THEN "none"
    ELSE IF delta_color = "off" THEN "gray"
    ELSE IF delta.neg = (delta_color = "inverse") THEN "green" ELSE "red"

\* a memoized fetch of the running process
Fetch(c, op, cs, ys) == Cached(c, variant, ReadTable, ReadOk, op, cs, ys)

\* the elements of list that are in S, in the order of list
RECURSIVE Pick(_, _)
Pick(list, S) ==
    IF list = <<>> THEN <<>>
    ELSE (IF Head(list) \in S THEN <<Head(list)>> ELSE <<>>) \o Pick(Tail(list), S)

\* range(a, b + 1) as a tuple, and a variant that stops before b
RECURSIVE RangeBad(_, _)
RangeBad(a, b) == IF a >= b THEN <<>> ELSE <<a>> \o RangeBad(a + 1, b)
RECURSIVE Range(_, _)
Range(a, b) == IF a > b THEN <<>> ELSE <<a>> \o Range(a + 1, b)

\* the rows of df with from <= year <= to (the columns are kept), and a
\* variant that leaves the last year of the range out
RECURSIVE BetweenOpen(_, _, _)
BetweenOpen(rows, from, to) ==
    IF rows = <<>> THEN <<>>
    ELSE (IF from <= Head(rows).year /\ Head(rows).year < to
          THEN <<Head(rows)>> ELSE <<>>) \o BetweenOpen(Tail(rows), from, to)
RECURSIVE Between(_, _, _)
Between(rows, from, to) ==
    IF rows = <<>> THEN <<>>
    ELSE (IF from <= Head(rows).year /\ Head(rows).year <= to
          THEN <<Head(rows)>> ELSE <<>>) \o Between(Tail(rows), from, to)

\* the ends the slider is moved to
YearChoices(lim) == {y \in Years \cup {lim[1], lim[2]} : lim[1] <= y /\ y <= lim[2]}

\* main: countries = get_country_list(); year_min, year_max = get_year_range()
Start ==
    /\ pc = "start"
    /\ LET r1 == Fetch(cache, "get_country_list", NoArg, NoArg)
           r2 == Fetch(r1.cache, "get_year_range", NoArg, NoArg)
       IN  /\ cache' = r2.cache
           /\ country_list' = r1.value
           /\ year_lim' = r2.value
    /\ pc' = "sidebar"
    /\ UNCHANGED <<storeVars, uploadVars, dashVars, pickVars, seriesVars,
                   valueVars, rankVars, compVars, rerunVars, formVars>>

\* the lists of at most n elements of S, and those without a repetition
Lists(S, n) == UNION {[1..k -> S] : k \in 0..n}
Selections(S) ==
    {q \in Lists(S, Cardinality(S)) :
        \A i \in 1..Len(q), j \in 1..Len(q) : i # j => q[i] # q[j]}

\* the options of the multiselect, [c for c in countries if c != selected_country],
\* and a variant that offers every country
OptionsBad(list, sel) == list
Options(list, sel) == Pick(list, Elems(list) \ {sel})

\* "if not selected_country", and a variant that lets every selection through
NotSelectedBad(sel) == FALSE
NotSelected(sel) == sel = None

\* main: all_countries = [selected_country] + comparison_countries
AllCountries(sel, comp) == <<sel>> \o comp

\* render_dashboard_sidebar, and the check "if not selected_country".  The
\* multiselect returns options without repetition, in the order selected.
Sidebar ==
    /\ pc = "sidebar"
    /\ \E sel \in {None} \cup Elems(country_list) :
         \E comp \in Selections(Elems(Options(country_list, sel))) :
           \E a \in YearChoices(year_lim), b \in YearChoices(year_lim) :
             /\ a <= b
             /\ selected_country' = sel
             /\ comparison_countries' = comp
             /\ year_range' = <<a, b>>
             /\ IF NotSelected(sel)
                THEN pc' = "stopped" /\ outcome' = "no_country"
                ELSE pc' = "load" /\ outcome' = outcome
    /\ UNCHANGED <<storeVars, uploadVars, cacheVars, df_all_latest,
                   rankings_current, optVars, seriesVars, valueVars, rankVars, compVars, rerunVars, formVars>>

\* df_main = get_country_data(selected_country), filtered to year_range;
\* df_main["year"] raises KeyError on a frame without columns
Load ==
    /\ pc = "load"
    /\ LET r == Fetch(cache, "get_country_data", Arg(<<selected_country>>), NoArg)
           df_main == r.value
       IN  /\ cache' = r.cache
           /\ IF ~df_main.cols
              THEN /\ pc' = "stopped" /\ outcome' = "KeyError"
                   /\ UNCHANGED df_main_filtered
              ELSE /\ df_main_filtered' =
                        [rows |-> Between(df_main.rows, year_range[1], year_range[2]),
                         cols |-> TRUE]
                   /\ pc' = "compare" /\ outcome' = outcome
    /\ UNCHANGED <<storeVars, uploadVars, df_all_latest, selected_country,
                   rankings_current, optVars, pickVars, df_comparison,
                   valueVars, rankVars, compVars, rerunVars, formVars>>

\* df_comparison, the check "if df_main_filtered.empty", and render_metrics
\* of app.py
Compare ==
    /\ pc = "compare"
    /\ IF comparison_countries # <<>>
       THEN LET all_countries == AllCountries(selected_country, comparison_countries)
                r == Fetch(cache, "load_complexity_data", Arg(all_countries),
                           Arg(Range(year_range[1], year_range[2])))
            IN  cache' = r.cache /\ df_comparison' = r.value
       ELSE cache' = cache /\ df_comparison' = df_main_filtered
    /\ IF df_main_filtered.rows = <<>>
       THEN /\ pc' = "stopped" /\ outcome' = "no_data"
            /\ UNCHANGED valueVars
       ELSE /\ latest_year' = Iloc(df_main_filtered, 1).year
            /\ previous_year' = PreviousYear(df_main_filtered)
            /\ deltas' = ValueDeltas(df_main_filtered)
            /\ shown' = ValueShown(df_main_filtered, ValueDeltas(df_main_filtered))
            /\ pc' = "ranks" /\ outcome' = outcome
    /\ UNCHANGED <<storeVars, uploadVars, df_all_latest, selected_country,
                   rankings_current, optVars, pickVars, df_main_filtered, rankVars, compVars, rerunVars, formVars>>

\* metrics.py lines 12-43 and, for a series of one observation, the cards
RankLatest ==
    /\ pc = "ranks"
    /\ LET r == Fetch(cache, "load_complexity_data", NoArg,
                      Arg(<<Iloc(df_main_filtered, 1).year>>))
           cur == Rankings(r.value, selected_country)
       IN  /\ cache' = r.cache
           /\ df_all_latest' = r.value
           /\ rankings_current' = cur.ranks
           /\ IF cur.status # "ok"
              THEN pc' = "done" /\ outcome' = cur.status /\ UNCHANGED rank_shown
              ELSE IF Len(df_main_filtered.rows) > 1
              THEN pc' = "ranks_prev" /\ outcome' = outcome /\ UNCHANGED rank_shown
              ELSE /\ rank_shown' = RankShown(cur.ranks, NoYear, <<>>)
                   /\ pc' = "done" /\ outcome' = "ok"
    /\ UNCHANGED <<storeVars, uploadVars, selected_country, optVars, pickVars,
                   seriesVars, valueVars, df_all_previous, rankings_previous, compVars, rerunVars, formVars>>

\* metrics.py lines 46-59 and the cards
RankPrev ==
    /\ pc = "ranks_prev"
    /\ LET prev_year == PreviousYear(df_main_filtered)
           r == Fetch(cache, "load_complexity_data", NoArg, Arg(<<prev_year>>))
           prv == Rankings(r.value, selected_country)
       IN  /\ cache' = r.cache
           /\ df_all_previous' = r.value
           /\ pc' = "done"
           /\ IF prv.status # "ok"
              THEN outcome' = prv.status /\ UNCHANGED <<rankings_previous, rank_shown>>
              ELSE /\ rankings_previous' = [idx \in Indices |-> prv.ranks[idx][1]]
                   /\ rank_shown' = RankShown(rankings_current, prev_year,
                                        [idx \in Indices |-> prv.ranks[idx][1]])
                   /\ outcome' = "ok"
    /\ UNCHANGED <<storeVars, uploadVars, df_all_latest, selected_country,
                   rankings_current, optVars, pickVars, seriesVars, valueVars, compVars, rerunVars, formVars>>

\* the tables the run is checked on: Brazil and Chile vary, Peru is fixed
BrazilCells == {Absent, <<1, 2>>, <<2, 1>>}
ChileCells == {Absent, <<1, 1>>, <<2, Null>>}
PeruCell(y) ==
    IF y = FirstYear THEN <<0, 0>> ELSE IF y = LastYear THEN <<2, 2>> ELSE Absent
Tables ==
    { [k \in Keys |->
          CASE k[1] = "Brazil" -> br[k[2]]
            [] k[1] = "Chile"  -> IF k[2] = FirstYear THEN Absent ELSE ch[k[2]]
            [] OTHER           -> PeruCell(k[2])] :
        br \in [Years -> BrazilCells], ch \in [Years \ {FirstYear} -> ChileCells] }

Init ==
    /\ table \in Tables
    /\ local = table
    /\ storeUp = TRUE /\ client = TRUE /\ variant = "supabase"
    /\ UploadIdle /\ CacheIdle /\ DashIdle

Next == Start \/ Sidebar \/ Load \/ Compare \/ RankLatest \/ RankPrev

Spec == Init /\ [][Next]_vars

\* the same run while upload_data_to_supabase replaces the table by the
\* revised local one and the store comes and goes
LiveInit ==
    /\ table = Seed
    /\ local = Revised
    /\ storeUp = TRUE /\ client = TRUE /\ variant = "supabase"
    /\ UploadIdle /\ CacheIdle /\ DashIdle

LiveNext ==
    \/ Start \/ Sidebar \/ Load \/ Compare \/ RankLatest \/ RankPrev
    \/ UploadClear
    \/ UploadBatch("ok")
    \/ StoreFlip

SpecLive == LiveInit /\ [][LiveNext]_vars

----------------------------------------------------------------------------
(* Properties of the deltas.  Under Spec the table does not change, so what *)
(* the run shows is compared with the table itself.                         *)

\* the years for which country c has an observation within year_range
InRange(c) ==
    {y \in Years : table[<<c, y>>] # Absent /\ year_range[1] <= y /\ y <= year_range[2]}
\* the value of c for idx in year y (c has an observation in y)
Val(c, y, idx) == MkRow(c, y, table[<<c, y>>][1], table[<<c, y>>][2])[idx]
\* 1 + the number of countries present in year y with a greater value
RankAt(c, y, idx) ==
    1 + Cardinality({d \in Countries :
                        /\ table[<<d, y>>] # Absent
                        /\ Val(d, y, idx) # Null
                        /\ Val(d, y, idx) > Val(c, y, idx)})
ValuesRendered == pc \in {"ranks", "ranks_prev", "done"}
RanksRendered == pc = "done" /\ outcome = "ok"
\* the greatest year of a non-empty set below year y
Before(S, y) == MaxOf({z \in S : z < y})

\* C3: when the ranking cards are shown with a previous year, the delta of
\* each index is (rank in the latest year) - (rank in the previous year),
\* each rank being 1 + the number of countries of that year's table with a
\* greater value; the card is green (improved) exactly when the delta is
\* negative, red (worsened) exactly when it is positive and gray (unchanged)
\* exactly when it is 0.
C3_RankDelta ==
    (RanksRendered /\ Len(df_main_filtered.rows) > 1) =>
        \A idx \in Indices :
            LET cur == RankAt(selected_country, latest_year, idx)
                prev == RankAt(selected_country, previous_year, idx)
                card == rank_shown[idx]
                colour == Indicator(card.delta, card.delta_color)
            IN  /\ rankings_current[idx][1] = cur
                /\ rankings_previous[idx] = prev
                /\ card.value = cur
                /\ card.delta = Text(cur < prev, Abs(cur - prev))
                /\ (colour = "green") <=> (cur - prev < 0)
                /\ (colour = "red") <=> (cur - prev > 0)
                /\ (colour = "gray") <=> (cur - prev = 0)

\* the cards are shown with one index improved by one place (2 -> 1),
\* another worsened and another unchanged
C3_Witness ==
    /\ RanksRendered /\ Len(df_main_filtered.rows) > 1
    /\ \E idx \in Indices :
          /\ rankings_previous[idx] = 2 /\ rankings_current[idx][1] = 1
          /\ rank_shown[idx].delta = Text(TRUE, 1)
          /\ Indicator(rank_shown[idx].delta, rank_shown[idx].delta_color) = "green"
    /\ \E idx \in Indices :
          Indicator(rank_shown[idx].delta, rank_shown[idx].delta_color) = "red"

\* C4: when the primary country has exactly one observation in the selected
\* range, every value delta is None and no delta text is shown (never
\* "0.00 p.p"), previous_year is None, the previous slice is never ranked,
\* and the ranking cards carry no delta and no indicator; a delta text is
\* shown only when at least two observations are in range.
C4_SingleObservation ==
    /\ (ValuesRendered /\ Cardinality(InRange(selected_country)) = 1) =>
          /\ previous_year = NoYear
          /\ pc # "ranks_prev"
          /\ rankings_previous = <<>>
          /\ \A idx \in Indices :
                /\ deltas[idx] = NoDelta
                /\ shown[idx].delta = NoText
                /\ Indicator(shown[idx].delta, "normal") = "none"
                /\ RanksRendered =>
                      /\ rank_shown[idx].delta = NoText
                      /\ Indicator(rank_shown[idx].delta,
                                   rank_shown[idx].delta_color) = "none"
    /\ \A idx \in Indices :
          /\ (shown # <<>> /\ shown[idx].delta.some) =>
                Cardinality(InRange(selected_country)) >= 2
          /\ (rank_shown # <<>> /\ rank_shown[idx].delta.some) =>
                Cardinality(InRange(selected_country)) >= 2

\* both sets of cards are shown for a country with one observation in a
\* range that the country has further observations outside of
C4_Witness ==
    /\ RanksRendered
    /\ Cardinality(InRange(selected_country)) = 1
    /\ \E y \in Years : table[<<selected_country, y>>] # Absent
                        /\ y \notin InRange(selected_country)
    /\ \A idx \in Indices : shown[idx].delta = NoText /\ rank_shown[idx].delta = NoText

\* C5: the deltas compare the observation of the greatest year the primary
\* country has within the selected range with the one of the greatest
\* strictly smaller such year, consecutive or not: latest_year and
\* previous_year are these two years, the value deltas are taken between
\* their observations, and the ranked slices are the table's rows of these
\* two years.
C5_LastTwoPoints ==
    ValuesRendered =>
        LET S == InRange(selected_country)
        IN  /\ S # {}
            /\ latest_year = MaxOf(S)
            /\ Cardinality(S) >= 2 =>
                  /\ previous_year = Before(S, latest_year)
                  /\ \A idx \in Indices :
                        deltas[idx] = Minus(Val(selected_country, latest_year, idx),
                                            Val(selected_country, previous_year, idx))
            /\ pc \in {"ranks_prev", "done"} =>
                  df_all_latest = DataFrame(Select(table, Countries, {latest_year}, 1))
            /\ (pc = "done" /\ rankings_previous # <<>>) =>
                  df_all_previous =
                      DataFrame(Select(table, Countries, {previous_year}, 1))

\* the two years compared are not consecutive: the year between them is in
\* the range, other countries have an observation in it, the selected one
\* has none
C5_Witness ==
    /\ RanksRendered
    /\ previous_year # NoYear
    /\ latest_year - previous_year > 1
    /\ \E c \in Countries : table[<<c, latest_year - 1>>] # Absent
    /\ \E idx \in Indices : deltas[idx].kind = "num" /\ deltas[idx].v # 0

\* C6: for each index with a value in both observations, the value delta is
\* (latest value) - (previous value), its text carries "-" exactly when the
\* difference is negative and the difference rounded to hundredths, and a
\* strictly greater latest value gives a strictly positive delta with a
\* green (improved) indicator.
C6_ValueDelta ==
    (ValuesRendered /\ Len(df_main_filtered.rows) > 1) =>
        \A idx \in Indices :
            LET v1 == Val(selected_country, latest_year, idx)
                v0 == Val(selected_country, previous_year, idx)
            IN  (v1 # Null /\ v0 # Null) =>
                  /\ deltas[idx] = Num(v1 - v0)
                  /\ shown[idx].delta = Text(v1 < v0, Hundredths(v1 - v0))
                  /\ v1 > v0 =>
                        /\ deltas[idx].v > 0
                        /\ Indicator(shown[idx].delta, "normal") = "green"
                  /\ v1 < v0 => Indicator(shown[idx].delta, "normal") = "red"

\* one index rose and another fell between the two observations
C6_Witness ==
    /\ ValuesRendered /\ Len(df_main_filtered.rows) > 1
    /\ \E idx \in Indices :
          /\ deltas[idx].kind = "num" /\ deltas[idx].v > 0
          /\ Indicator(shown[idx].delta, "normal") = "green"
    /\ \E idx \in Indices : deltas[idx].kind = "num" /\ deltas[idx].v < 0

----------------------------------------------------------------------------
(* Properties of the run while the table is being replaced *)

\* C7: when the selected country has no row in the slice fetched for the
\* latest year, or in the one fetched for the previous year, the ranking
\* component ends with an exception (IndexError at .values[0]; KeyError when
\* the slice came back without columns), records no rank of that year for
\* the country and shows no card.
C7_AbsentCountryFails ==
    /\ (pc \in {"ranks_prev", "done"} /\ RowsOf(df_all_latest, selected_country) = {}) =>
          /\ pc = "done"
          /\ outcome \in {"IndexError", "KeyError"}
          /\ rankings_current = <<>>
          /\ rank_shown = <<>>
    /\ (pc = "done" /\ rankings_current # <<>> /\ Len(df_main_filtered.rows) > 1
          /\ RowsOf(df_all_previous, selected_country) = {}) =>
          /\ outcome \in {"IndexError", "KeyError"}
          /\ rankings_previous = <<>>
          /\ rank_shown = <<>>

\* the series of the country came from the table before the upload, the
\* slice of its latest year from the table after it: other countries have
\* rows in the slice, the selected one has none
C7_Witness ==
    /\ pc = "done"
    /\ outcome = "IndexError"
    /\ df_all_latest.rows # <<>>
    /\ RowsOf(df_all_latest, selected_country) = {}
    /\ Iloc(df_main_filtered, 1).year = LastYear

----------------------------------------------------------------------------
(* load_complexity_data called directly, once, on any arguments *)

\* the country and year arguments of the calls
CountryArgs == {NoArg} \cup {Arg(q) : q \in Selections(Countries)}
YearArgs ==
    {NoArg, Arg(<<>>), Arg(<<LastYear>>), Arg(<<LastYear, FirstYear>>),
     Arg(Range(FirstYear, LastYear))}

FetchInit ==
    /\ table \in {Seed, Revised, EmptyTable}
    /\ local = table
    /\ storeUp \in BOOLEAN
    /\ variant \in {"supabase", "sql"}
    /\ client \in (IF variant = "supabase" THEN BOOLEAN ELSE {FALSE})
    /\ UploadIdle /\ CacheIdle /\ DashIdle

DirectFetch(cs, ys) ==
    /\ fetched = <<>>
    /\ LET r == Fetch(cache, "load_complexity_data", cs, ys)
       IN  /\ cache' = r.cache
           /\ fetched' = [countries |-> cs, years |-> ys, ok |-> ReadOk,
                          status |-> r.status, value |-> r.value]
    /\ UNCHANGED <<storeVars, uploadVars, dashVars, runVars, fig, rerunVars, formVars>>

FetchNext == \E cs \in CountryArgs, ys \in YearArgs : DirectFetch(cs, ys)

SpecFetch == FetchInit /\ [][FetchNext]_vars

\* the set a filter argument stands for when only a missing argument means
\* "no filter"
Given(a, All) == IF a.some THEN Elems(a.v) ELSE All

\* C11 (as stated): a call made while the store cannot be read either raises
\* or returns a value different from what a successful call with the same
\* arguments returns when no row matches.
C11_FailureDistinct ==
    (fetched # <<>> /\ ~fetched.ok) =>
        \/ fetched.status = "raise"
        \/ \A t \in {Seed, Revised, EmptyTable} :
              LET legit == RawLoad(variant, t, TRUE, fetched.countries, fetched.years)
              IN  legit.value.rows = <<>> => fetched.value # legit.value

----------------------------------------------------------------------------
(* Properties of main: what is fetched, and what a failed fetch leads to.   *)
(* Under SpecLive every behaviour is one run that starts with an empty      *)
(* cache, so the keys of the cache are the calls the run has made.          *)

\* the calls that fetch observations
ObservationKeys ==
    {k \in DOMAIN cache : k.op \in {"get_country_data", "load_complexity_data"}}
MainKey == Key("get_country_data", Arg(<<selected_country>>), NoArg)
InnerKey == Key("load_complexity_data", Arg(<<selected_country>>), NoArg)
YearKey == Key("get_year_range", NoArg, NoArg)
CombinedKey ==
    Key("load_complexity_data",
        Arg(AllCountries(selected_country, comparison_countries)),
        Arg(Range(year_range[1], year_range[2])))
\* the run is past the loading of df_main and the fetch behind it failed
MainFetchFailed ==
    /\ pc \notin {"start", "sidebar", "load"}
    /\ MainKey \in DOMAIN cache
    /\ ~cache[MainKey].src.ok

\* C12 (as stated): when the fetch of the primary country's observations
\* failed, the run stops without an exception and without the "no data in
\* the selected year range" outcome, and renders no metrics and no chart.
C12_FailureStopsQuietly ==
    MainFetchFailed =>
        /\ pc = "stopped"
        /\ outcome \notin {"KeyError", "IndexError", "ValueError", "no_data"}
        /\ shown = <<>> /\ rank_shown = <<>> /\ fig = <<>>

\* C13 (as stated): when get_year_range was answered through a store
\* failure, the run holds no year bounds obtained from it and the slider is
\* not set from them; and a ranking that ended with an exception shows no
\* rank and no delta.
C13_NoDefaultNumber ==
    /\ (pc # "start" /\ ~cache[YearKey].src.ok) =>
          /\ year_lim = <<NoYear, NoYear>>
          /\ year_range = <<NoYear, NoYear>>
    /\ outcome \in {"KeyError", "IndexError", "ValueError"} => rank_shown = <<>>

\* C16: once the sidebar has returned without a primary country, whatever
\* comparison countries and year range it returned, the run has stopped with
\* the "please select a country" notice, has called neither get_country_data
\* nor load_complexity_data, and has rendered no metrics and no chart.
C16_NoPrimaryNoFetch ==
    (pc \notin {"start", "sidebar"} /\ selected_country = None) =>
        /\ pc = "stopped"
        /\ outcome = "no_country"
        /\ ObservationKeys = {}
        /\ df_main_filtered = EmptyFrame /\ df_comparison = EmptyFrame
        /\ shown = <<>> /\ rank_shown = <<>> /\ fig = <<>>

\* the run stopped without a primary country although comparison countries
\* were selected and the slider was moved
C16_Witness ==
    /\ pc = "stopped" /\ outcome = "no_country"
    /\ country_list # <<>>
    /\ Len(comparison_countries) = 2
    /\ year_range # year_lim

\* the run has built df_comparison for a non-empty comparison selection
Compared ==
    /\ comparison_countries # <<>>
    /\ pc \in {"ranks", "ranks_prev", "done"} \/ (pc = "stopped" /\ outcome = "no_data")

\* C17 (as stated): for a non-empty comparison selection the run performs
\* exactly one observation fetch, the combined one.
C17_Original == Compared => ObservationKeys \subseteq {CombinedKey}

\* C17: for a non-empty comparison selection df_comparison is the result of
\* exactly one call with both filters, load_complexity_data([primary] +
\* comparison, years = the years of the range), made besides the
\* get_country_data(primary) call; it holds the rows of the fetched snapshot
\* for these countries and years, and the rows of each country are in
\* strictly ascending year order.
C17_CombinedFetch ==
    Compared =>
        /\ {k \in ObservationKeys : k.countries.some /\ k.years.some} = {CombinedKey}
        /\ {MainKey, InnerKey} \subseteq ObservationKeys
        /\ df_comparison = cache[CombinedKey].value
        /\ LET src == cache[CombinedKey].src
               cs == {selected_country} \cup Elems(comparison_countries)
               ys == {y \in Years : year_range[1] <= y /\ y <= year_range[2]}
           IN  df_comparison.rows =
                   IF src.ok THEN Select(src.table, cs, ys, 1) ELSE <<>>
        /\ \A i \in 1..Len(df_comparison.rows), j \in 1..Len(df_comparison.rows) :
              (i < j /\ df_comparison.rows[i].country_name
                          = df_comparison.rows[j].country_name)
                  => df_comparison.rows[i].year < df_comparison.rows[j].year

\* two comparison countries: the result holds several countries, and
\* several years of one of them
C17_Witness ==
    /\ pc = "ranks"
    /\ Len(comparison_countries) = 2
    /\ \E i \in 1..Len(df_comparison.rows), j \in 1..Len(df_comparison.rows) :
          /\ i < j
          /\ df_comparison.rows[i].country_name = df_comparison.rows[j].country_name
    /\ \E i \in 1..Len(df_comparison.rows) :
          df_comparison.rows[i].country_name # selected_country

----------------------------------------------------------------------------
(* The sidebar over a session: each interaction with a widget reruns        *)
(* render_dashboard_sidebar; the widgets keep their values under their keys *)
(* "main_country", "comparison_countries" and "year_range".                 *)

SidebarInit ==
    /\ table = Seed /\ local = Seed
    /\ storeUp = TRUE /\ client = TRUE /\ variant = "supabase"
    /\ UploadIdle /\ CacheIdle
    /\ df_all_latest = EmptyFrame /\ rankings_current = <<>> /\ outcome = "none"
    /\ pc = "sidebar"
    /\ country_list = CountryNames(Seed, 1)
    /\ year_lim = <<MinOf(YearsPresent(Seed)), MaxOf(YearsPresent(Seed))>>
    /\ selected_country = None             \* index=None
    /\ comparison_countries = <<>>         \* default=[]
    /\ year_range = year_lim               \* value=(year_min, year_max)
    /\ df_main_filtered = EmptyFrame /\ df_comparison = EmptyFrame
    /\ latest_year = NoYear /\ previous_year = NoYear
    /\ deltas = <<>> /\ shown = <<>>
    /\ df_all_previous = EmptyFrame
    /\ rankings_previous = <<>> /\ rank_shown = <<>>
    /\ fetched = <<>> /\ fig = <<>>
    /\ PagesIdle

SidebarFrame ==
    UNCHANGED <<storeVars, uploadVars, cacheVars, df_all_latest, rankings_current,
                outcome, pc, optVars, seriesVars, valueVars, rankVars, compVars, rerunVars, formVars>>

\* the list without the element c
Without(list, c) == Pick(list, Elems(list) \ {c})

\* The selectbox is set to c or cleared.  The options of the multiselect
\* change with it: st.multiselect then either starts again from its default
\* or keeps those selected values that are still options.
SelectPrimary(c) ==
    /\ c # selected_country
    /\ selected_country' = c
    /\ comparison_countries' \in
          {<<>>, Pick(comparison_countries, Elems(Options(country_list, c)))}
    /\ UNCHANGED year_range
    /\ SidebarFrame

\* one more option of the multiselect is selected: it goes last
AddComparison(c) ==
    /\ c \in Elems(Options(country_list, selected_country))
    /\ c \notin Elems(comparison_countries)
    /\ comparison_countries' = Append(comparison_countries, c)
    /\ UNCHANGED <<selected_country, year_range>>
    /\ SidebarFrame

RemoveComparison(c) ==
    /\ c \in Elems(comparison_countries)
    /\ comparison_countries' = Without(comparison_countries, c)
    /\ UNCHANGED <<selected_country, year_range>>
    /\ SidebarFrame

MoveSlider(a, b) ==
    /\ a <= b
    /\ year_range' = <<a, b>>
    /\ UNCHANGED <<selected_country, comparison_countries>>
    /\ SidebarFrame

SidebarNext ==
    \/ \E c \in {None} \cup Elems(country_list) : SelectPrimary(c)
    \/ \E c \in Elems(country_list) : AddComparison(c)
    \/ \E c \in Elems(country_list) : RemoveComparison(c)
    \/ \E a \in YearChoices(year_lim), b \in YearChoices(year_lim) : MoveSlider(a, b)

SpecSidebar == SidebarInit /\ [][SidebarNext]_vars

\* the position of c in a list without repetition
PosIn(list, c) == CHOOSE i \in 1..Len(list) : list[i] = c
NoRepeat(list) ==
    \A i \in 1..Len(list), j \in 1..Len(list) : i # j => list[i] # list[j]

\* C14: after any sequence of sidebar interactions the comparison list holds
\* countries of the country list, not the primary country and none twice;
\* the list built for the fetch and the charts is the primary country
\* followed by the comparison list; and an interaction keeps the countries
\* that stay selected in their order and puts a newly selected one last.
C14_ComparisonList ==
    /\ [](/\ selected_country \notin Elems(comparison_countries)
          /\ NoRepeat(comparison_countries)
          /\ Elems(comparison_countries) \subseteq Elems(country_list)
          /\ LET all == AllCountries(selected_country, comparison_countries)
             IN  /\ all[1] = selected_country
                 /\ SubSeq(all, 2, Len(all)) = comparison_countries
                 /\ NoRepeat(all))
    /\ [][ /\ \A c \in Elems(comparison_countries), d \in Elems(comparison_countries) :
                (c \in Elems(comparison_countries') /\ d \in Elems(comparison_countries')
                   /\ PosIn(comparison_countries, c) < PosIn(comparison_countries, d))
                => PosIn(comparison_countries', c) < PosIn(comparison_countries', d)
           /\ \A c \in Elems(comparison_countries') \ Elems(comparison_countries) :
                comparison_countries'[Len(comparison_countries')] = c ]_vars

\* a primary country with two comparison countries selected in the order
\* opposite to the option list, and the slider moved
C14_Witness ==
    /\ selected_country # None
    /\ Len(comparison_countries) = 2
    /\ CountryPos(comparison_countries[1]) > CountryPos(comparison_countries[2])
    /\ year_range # year_lim

----------------------------------------------------------------------------
(* The chart tabs.  A behaviour is the part of main from "Load data" on for *)
(* one request (primary country, comparison list, year range), any list of  *)
(* countries being taken as comparison list, followed by one of the charts  *)
(* on the df_comparison that main built.  The table does not change.        *)

\* the five component indices of the radar chart
radar_indices == SubSeq(indices, 1, 5)

\* the rows of df of country c, and those of year y among them
RECURSIVE RowsWhere(_, _, _)
RowsWhere(rows, c, ys) ==
    IF rows = <<>> THEN <<>>
    ELSE (IF Head(rows).country_name = c /\ Head(rows).year \in ys
          THEN <<Head(rows)>> ELSE <<>>) \o RowsWhere(Tail(rows), c, ys)
YearsOf(df) == {df.rows[i].year : i \in 1..Len(df.rows)}

\* render_comparison_chart: one trace per country of countries_to_compare;
\* the variant leaves out a country without rows
ComparisonTracesBad(df, ctc, idx) ==
    LET keep == {i \in 1..Len(ctc) : RowsWhere(df.rows, ctc[i], YearsOf(df)) # <<>>}
        kept == Pick(ctc, {ctc[i] : i \in keep})
    IN  [i \in 1..Len(kept) |->
            LET df_country == RowsWhere(df.rows, kept[i], YearsOf(df))
            IN  [name |-> kept[i],
                 x |-> [k \in 1..Len(df_country) |-> df_country[k].year],
                 y |-> [k \in 1..Len(df_country) |-> df_country[k][idx]]]]
ComparisonTraces(df, ctc, idx) ==
    [i \in 1..Len(ctc) |->
        LET df_country == RowsWhere(df.rows, ctc[i], YearsOf(df))
        IN  [name |-> ctc[i],
             x |-> [k \in 1..Len(df_country) |-> df_country[k].year],
             y |-> [k \in 1..Len(df_country) |-> df_country[k][idx]]]]

\* values = [df_country_year[idx].values[0] for idx in indices];
\* values.append(values[0])
RadarValues(row) ==
    [k \in 1..Len(radar_indices) |-> row[radar_indices[k]]] \o <<row[radar_indices[1]]>>
ZeroValues == [k \in 1..(Len(radar_indices) + 1) |-> 0]

\* render_radar_chart: the traces of the countries with a row for the year,
\* two per country in the overlay chart and one per country side by side;
\* the variant draws a country without a row at zero
RECURSIVE RadarTracesBad(_, _, _, _)
RadarTracesBad(df, ctc, year, mode) ==
    IF ctc = <<>> THEN <<>>
    ELSE LET df_country_year == RowsWhere(df.rows, Head(ctc), {year})
             r == IF df_country_year # <<>> THEN RadarValues(df_country_year[1])
                  ELSE ZeroValues
         IN  (IF mode = "Overlay"
              THEN <<[name |-> Head(ctc), r |-> r, mode |-> "lines"],
                     [name |-> Head(ctc), r |-> r, mode |-> "markers"]>>
              ELSE <<[name |-> Head(ctc), r |-> r, mode |-> "lines+markers+text"]>>)
             \o RadarTracesBad(df, Tail(ctc), year, mode)
RECURSIVE RadarTraces(_, _, _, _)
RadarTraces(df, ctc, year, mode) ==
    IF ctc = <<>> THEN <<>>
    ELSE LET df_country_year == RowsWhere(df.rows, Head(ctc), {year})
         IN  (IF df_country_year # <<>>                 \* not df_country_year.empty
              THEN LET r == RadarValues(df_country_year[1])
                   IN  IF mode = "Overlay"
                       THEN <<[name |-> Head(ctc), r |-> r, mode |-> "lines"],
                              [name |-> Head(ctc), r |-> r, mode |-> "markers"]>>
                       ELSE <<[name |-> Head(ctc), r |-> r, mode |-> "lines+markers+text"]>>
              ELSE <<>>)
             \o RadarTraces(df, Tail(ctc), year, mode)

\* the "Country Comparison" tab; df_comparison["country_name"] raises
\* KeyError on a frame without columns
RenderComparisonChart(index_to_compare, chart_type) ==
    /\ pc = "ranks"
    /\ IF ~df_comparison.cols
       THEN pc' = "done" /\ outcome' = "KeyError" /\ UNCHANGED fig
       ELSE /\ fig' = [chart |-> "comparison", index |-> index_to_compare,
                       type |-> chart_type,
                       traces |-> ComparisonTraces(df_comparison,
                                     AllCountries(selected_country, comparison_countries),
                                     index_to_compare)]
            /\ pc' = "charted" /\ outcome' = outcome
    /\ UNCHANGED <<storeVars, uploadVars, cacheVars, df_all_latest, selected_country,
                   rankings_current, optVars, pickVars, seriesVars, valueVars,
                   rankVars, fetched, rerunVars, formVars>>

\* the "Radar Chart" tab for one of the available years and a display mode
RenderRadarChart(selected_radar_year, display_mode) ==
    /\ pc = "ranks"
    /\ IF ~df_comparison.cols
       THEN pc' = "done" /\ outcome' = "KeyError" /\ UNCHANGED fig
       ELSE /\ selected_radar_year \in YearsOf(df_comparison)
            /\ fig' = [chart |-> "radar", year |-> selected_radar_year,
                       type |-> display_mode,
                       traces |-> RadarTraces(df_comparison,
                                     AllCountries(selected_country, comparison_countries),
                                     selected_radar_year, display_mode)]
            /\ pc' = "charted" /\ outcome' = outcome
    /\ UNCHANGED <<storeVars, uploadVars, cacheVars, df_all_latest, selected_country,
                   rankings_current, optVars, pickVars, seriesVars, valueVars,
                   rankVars, fetched, rerunVars, formVars>>

\* a request at "Load data": the sidebar lists come from the table
ChartInit ==
    /\ table = Seed /\ local = Seed
    /\ storeUp = TRUE /\ client = TRUE /\ variant = "supabase"
    /\ UploadIdle /\ CacheIdle
    /\ df_all_latest = EmptyFrame /\ rankings_current = <<>> /\ outcome = "none"
    /\ pc = "load"
    /\ country_list = CountryNames(Seed, 1)
    /\ year_lim = <<MinOf(YearsPresent(Seed)), MaxOf(YearsPresent(Seed))>>
    /\ selected_country \in Countries
    /\ comparison_countries \in Lists(Countries, 2)
    /\ year_range \in {yr \in Years \X Years : yr[1] <= yr[2]}
    /\ df_main_filtered = EmptyFrame /\ df_comparison = EmptyFrame
    /\ latest_year = NoYear /\ previous_year = NoYear
    /\ deltas = <<>> /\ shown = <<>>
    /\ df_all_previous = EmptyFrame
    /\ rankings_previous = <<>> /\ rank_shown = <<>>
    /\ fetched = <<>> /\ fig = <<>>
    /\ PagesIdle

ChartNext ==
    \/ Load
    \/ Compare
    \/ \E idx \in Indices, t \in {"Line", "Bar"} : RenderComparisonChart(idx, t)
    \/ \E y \in Years, m \in {"Overlay", "Side by Side"} : RenderRadarChart(y, m)

SpecChart == ChartInit /\ [][ChartNext]_vars

\* the request is one the sidebar can return
ValidSelection ==
    /\ selected_country \notin Elems(comparison_countries)
    /\ NoRepeat(comparison_countries)
\* the years of country c within the selected range, ascending
RECURSIVE YearsAsc(_, _)
YearsAsc(c, y) ==
    IF y > LastYear THEN <<>>
    ELSE (IF y \in InRange(c) THEN <<y>> ELSE <<>>) \o YearsAsc(c, y + 1)

C19_OneSeriesPerCountry ==
    (fig # <<>> /\ fig.chart = "comparison" /\ ValidSelection) =>
        LET ctc == AllCountries(selected_country, comparison_countries)
        IN  /\ Len(fig.traces) = Len(ctc)
            /\ \A i \in 1..Len(ctc) :
                  LET ys == YearsAsc(ctc[i], FirstYear)
                  IN  /\ fig.traces[i].name = ctc[i]
                      /\ fig.traces[i].x = ys
                      /\ fig.traces[i].y =
                            [k \in 1..Len(ys) |-> Val(ctc[i], ys[k], fig.index)]

\* a comparison country has no observation in the range and has its empty
\* trace, next to countries with several points
C19_Witness ==
    /\ fig # <<>> /\ fig.chart = "comparison" /\ ValidSelection
    /\ Len(comparison_countries) = 2
    /\ \E i \in 1..Len(fig.traces) : fig.traces[i].x = <<>>
    /\ \E i \in 1..Len(fig.traces) : Len(fig.traces[i].x) > 1

\* C20: in the radar chart of a year, a country of [primary] + comparison
\* without an observation for that year has no trace (in particular none at
\* zero), and a country with one has traces, each holding the five component
\* values of that observation followed by the first of them again.
C20_RadarAbsent ==
    (fig # <<>> /\ fig.chart = "radar") =>
        LET ctc == AllCountries(selected_country, comparison_countries)
            named(c) == {i \in 1..Len(fig.traces) : fig.traces[i].name = c}
        IN  /\ \A i \in 1..Len(fig.traces) : fig.traces[i].name \in Elems(ctc)
            /\ \A c \in Elems(ctc) :
                  IF table[<<c, fig.year>>] = Absent
                  THEN named(c) = {}
                  ELSE /\ named(c) # {}
                       /\ ValidSelection =>
                             Cardinality(named(c)) =
                                 (IF fig.type = "Overlay" THEN 2 ELSE 1)
                       /\ \A i \in named(c) :
                             fig.traces[i].r =
                                 [k \in 1..6 |->
                                     Val(c, fig.year, radar_indices[IF k = 6 THEN 1 ELSE k])]

\* a comparison country without an observation for the chosen year next to
\* one with an observation, the primary country's values not being zero
C20_Witness ==
    /\ fig # <<>> /\ fig.chart = "radar" /\ ValidSelection
    /\ Len(comparison_countries) = 2
    /\ \E c \in Elems(comparison_countries) : table[<<c, fig.year>>] = Absent
    /\ \E c \in Elems(comparison_countries) : table[<<c, fig.year>>] # Absent
    /\ \E i \in 1..Len(fig.traces) :
          fig.traces[i].name = selected_country /\ fig.traces[i].r # ZeroValues


----------------------------------------------------------------------------
(* The rank lookup of metrics.py on a consistent snapshot (Spec) *)

\* every cache entry was filled from the store state src
FilledFrom(src) == \A k \in DOMAIN cache : cache[k].src = src
\* no row of table t holds a null index value
NoNull(t) == \A k \in Keys : t[k] # Absent => (t[k][1] # Null /\ t[k][2] # Null)
\* a store state with a table without nulls that every entry was filled from
ConsistentSnapshot ==
    \E k \in DOMAIN cache :
       /\ FilledFrom(cache[k].src)
       /\ cache[k].src.ok
       /\ NoNull(cache[k].src.table)

\* C26: when every cache entry was filled from one snapshot and the snapshot
\* holds no null index value, a run whose primary country has at least one
\* observation in the year range finds the country in the all-countries
\* slice of the latest year and, for two observations or more, of the
\* previous year (both years are years of the country's own series), and the
\* rank lookup ends without an exception, with a rank for every index.
C26_RankLookupSucceeds ==
    ConsistentSnapshot =>
        /\ (pc \in {"ranks_prev", "done"}) =>
              /\ df_main_filtered.rows # <<>>
              /\ latest_year \in YearsOf(cache[MainKey].value)
              /\ RowsOf(df_all_latest, selected_country) # {}
              /\ DOMAIN rankings_current = Indices
        /\ (pc = "done") =>
              /\ outcome = "ok"
              /\ DOMAIN rank_shown = Indices
              /\ Len(df_main_filtered.rows) > 1 =>
                    /\ previous_year \in YearsOf(cache[MainKey].value)
                    /\ RowsOf(df_all_previous, selected_country) # {}
                    /\ DOMAIN rankings_previous = Indices
        /\ (pc = "stopped") => outcome \in {"no_country", "no_data"}

\* the primary country has no observation in the calendar year before its
\* latest one, other countries have, and both ranks were found
C26_Witness ==
    /\ ConsistentSnapshot /\ pc = "done" /\ outcome = "ok"
    /\ Len(df_main_filtered.rows) > 1
    /\ previous_year < latest_year - 1
    /\ \E c \in Countries : table[<<c, latest_year - 1>>] # Absent
    /\ Len(df_all_latest.rows) > 1 /\ Len(df_all_previous.rows) > 1

----------------------------------------------------------------------------
(* The two fetches of the primary country in one run (SpecLive) *)

\* the rows of country c in rows, in their order
RECURSIVE RowsOfCountry(_, _)
RowsOfCountry(rows, c) ==
    IF rows = <<>> THEN <<>>
    ELSE (IF Head(rows).country_name = c THEN <<Head(rows)>> ELSE <<>>)
         \o RowsOfCountry(Tail(rows), c)
\* the full series and the combined fetch were filled from one store state
OneSnapshot == cache[InnerKey].src = cache[CombinedKey].src

\* C27: when the full series of the primary country and the combined
\* comparison fetch were filled from the same snapshot, the rows of the
\* primary country in df_comparison (years = range(min, max + 1)) are exactly
\* the rows of its full series with min <= year <= max, that is
\* df_main_filtered: the metrics and the evolution chart (df_main_filtered)
\* and the comparison and radar charts (df_comparison) are given the same
\* observations of the primary country.
C27_PrimaryRowsAgree ==
    (Compared /\ OneSnapshot) =>
        /\ RowsOfCountry(df_comparison.rows, selected_country) = df_main_filtered.rows
        /\ df_main_filtered.rows =
              Between(cache[MainKey].value.rows, year_range[1], year_range[2])
        /\ \A i \in 1..Len(cache[MainKey].value.rows) :
              LET r == cache[MainKey].value.rows[i]
              IN  (year_range[1] <= r.year /\ r.year <= year_range[2])
                    <=> (\E j \in 1..Len(df_comparison.rows) : df_comparison.rows[j] = r)

\* the range leaves out an observation of the primary country, and the
\* combined fetch holds rows of another country as well
C27_Witness ==
    /\ Compared /\ OneSnapshot /\ pc = "ranks"
    /\ Len(df_main_filtered.rows) > 1
    /\ Len(cache[MainKey].value.rows) > Len(df_main_filtered.rows)
    /\ Len(df_comparison.rows) > Len(df_main_filtered.rows)

----------------------------------------------------------------------------
(* Streamlit runs main again: the cache is kept, the widgets keep their     *)
(* values, everything else is computed afresh.  The upload and the store    *)
(* go on as in SpecLive.                                                    *)

\* what a run was given, and what it computed and showed
RunInput ==
    [selected_country |-> selected_country,
     comparison_countries |-> comparison_countries,
     year_range |-> year_range]
RunOutput ==
    [pc |-> pc, outcome |-> outcome,
     country_list |-> country_list, year_lim |-> year_lim,
     df_main_filtered |-> df_main_filtered, df_comparison |-> df_comparison,
     latest_year |-> latest_year, previous_year |-> previous_year,
     deltas |-> deltas, shown |-> shown,
     df_all_latest |-> df_all_latest, rankings_current |-> rankings_current,
     df_all_previous |-> df_all_previous, rankings_previous |-> rankings_previous,
     rank_shown |-> rank_shown]

\* the script ends and is run again from its first line
Rerun ==
    /\ pc \in {"done", "stopped"}
    /\ previous_run' = [input |-> RunInput, output |-> RunOutput, table |-> table]
    /\ pc' = "start"
    /\ country_list' = <<>> /\ year_lim' = <<NoYear, NoYear>>
    /\ df_main_filtered' = EmptyFrame /\ df_comparison' = EmptyFrame
    /\ latest_year' = NoYear /\ previous_year' = NoYear
    /\ deltas' = <<>> /\ shown' = <<>>
    /\ df_all_previous' = EmptyFrame
    /\ rankings_previous' = <<>> /\ rank_shown' = <<>>
    /\ df_all_latest' = EmptyFrame /\ rankings_current' = <<>>
    /\ outcome' = "none"
    /\ UNCHANGED <<storeVars, uploadVars, cacheVars, selected_country, pickVars,
                   compVars, formVars>>

\* render_dashboard_sidebar on a later run: each widget returns the value it
\* holds when its options still offer it, and its default otherwise
SidebarKept ==
    /\ pc = "sidebar"
    /\ previous_run # <<>>
    /\ LET sel == IF selected_country \in Elems(country_list)
                  THEN selected_country ELSE None
           comp == Pick(comparison_countries, Elems(Options(country_list, sel)))
           kept == /\ year_lim[1] <= year_range[1] /\ year_range[1] <= year_range[2]
                   /\ year_range[2] <= year_lim[2]
       IN  /\ selected_country' = sel
           /\ comparison_countries' = comp
           /\ year_range' = IF kept THEN year_range ELSE year_lim
           /\ IF NotSelected(sel)
              THEN pc' = "stopped" /\ outcome' = "no_country"
              ELSE pc' = "load" /\ outcome' = outcome
    /\ UNCHANGED <<storeVars, uploadVars, cacheVars, df_all_latest,
                   rankings_current, optVars, seriesVars, valueVars, rankVars,
                   compVars, rerunVars, formVars>>

RerunNext ==
    \/ Start
    \/ (previous_run = <<>> /\ Sidebar)
    \/ SidebarKept
    \/ Load \/ Compare \/ RankLatest \/ RankPrev
    \/ Rerun
    \/ UploadClear
    \/ UploadBatch("ok")
    \/ StoreFlip

SpecRerun == LiveInit /\ [][RerunNext]_vars

RunEnded == pc \in {"done", "stopped"}

\* C21: a run that is given the primary country, the comparison list and the
\* year range of the run before it, on a table that has not changed since
\* that run ended, ends as that run did and shows what it showed: the same
\* lists, the same series of every country, the same years, values, ranks
\* and deltas.  This holds for the first pair of runs, where the earlier run
\* filled the cache, and for every later pair, where it found it filled.
C21_SameOutput ==
    (RunEnded /\ previous_run # <<>>
       /\ previous_run.input = RunInput /\ previous_run.table = table)
      => previous_run.output = RunOutput

\* the second run has shown the ranks of a series of several observations
\* with a comparison, and since the first run started the store has become
\* unreachable
C21_Witness ==
    /\ RunEnded /\ previous_run # <<>>
    /\ previous_run.input = RunInput /\ previous_run.table = table
    /\ pc = "done" /\ outcome = "ok"
    /\ comparison_countries # <<>>
    /\ Len(df_main_filtered.rows) > 1
    /\ ~storeUp

----------------------------------------------------------------------------
(* The download and contact forms (src/pages): one submitted form, from the *)
(* call of its handler to the handler's end.  A text field is "" or "x"; an *)
(* e-mail address is a sequence of characters.                              *)

Texts == {"", "x"}
Emails ==
    { <<>>, <<"a">>, <<"a", "@", "b">>, <<"a", ".", "b">>,
      <<"a", "@", "b", ".", "c">> }
\* ch in s
Has(s, ch) == \E i \in 1..Len(s) : s[i] = ch
\* "@" in email and "." in email, and a variant that looks for "@" only
ValidEmailAt(email) == Has(email, "@")
ValidEmail(email) == Has(email, "@") /\ Has(email, ".")

\* the fields of the download form; the contact form has name, email,
\* subject and message in the place of user_name, user_email, institution
\* and purpose, and no filters
DownloadRequests ==
    [ form : {"download"},
      user_name : Texts, user_email : Emails, institution : Texts, purpose : Texts,
      download_countries : {<<>>, <<"Chile", "Brazil">>},
      download_years : {<<FirstYear, LastYear>>, <<LastYear, LastYear>>},
      file_format : {"CSV", "Excel"} ]
ContactRequests ==
    [ form : {"contact"},
      user_name : Texts, user_email : Emails, institution : Texts, purpose : Texts,
      download_countries : {<<>>},
      download_years : {<<NoYear, NoYear>>},
      file_format : {"CSV"} ]

\* os.getenv: None when the variable is not set
MailEnvs ==
    [ SMTP_PORT : {None, "587", "abc"},
      SENDER_EMAIL : {None, "x"}, SENDER_PASSWORD : {None, "x"},
      ADMIN_EMAIL : {None, "x"} ]
\* int(os.getenv("SMTP_PORT", "587")) returns (it raises ValueError otherwise)
PortParses(env) == env.SMTP_PORT \in {None, "587"}
\* all([sender_email, sender_password, admin_email]), and a variant that
\* does not look at admin_email
IsSet(v) == v # None /\ v # ""
ConfiguredBad(env) == IsSet(env.SENDER_EMAIL) /\ IsSet(env.SENDER_PASSWORD)
Configured(env) ==
    IsSet(env.SENDER_EMAIL) /\ IsSet(env.SENDER_PASSWORD) /\ IsSet(env.ADMIN_EMAIL)

\* no connection yet
SmtpIdle == [connections |-> 0, open |-> FALSE, tls |-> FALSE, login |-> FALSE, sent |-> <<>>]
\* the handler is called inside "with st.form(...)": in_form
PageIdle ==
    [ pc |-> "submitted", messages |-> <<>>, in_form |-> TRUE,
      loaded |-> FALSE, df_download |-> EmptyFrame, sending |-> FALSE,
      offered |-> <<>>, raised |-> None ]

\* df.rename(columns={...}): the rows under the column names of the export
RenameRow(r) ==
    [ col \in {"Country Name", "Year", "Socio-Cultural Index",
               "Markets & Business Index", "Entrepreneurship Index",
               "Government Efficiency Index", "Legal Environment Index",
               "Total Complexity Index"} |->
        CASE col = "Country Name"                -> r.country_name
          [] col = "Year"                        -> r.year
          [] col = "Socio-Cultural Index"        -> r.indice_socio_cultural
          [] col = "Markets & Business Index"    -> r.indice_mercados_negocios
          [] col = "Entrepreneurship Index"      -> r.indice_empreendedorismo
          [] col = "Government Efficiency Index" -> r.indice_eficiencia_governo
          [] col = "Legal Environment Index"     -> r.indice_ambiente_juridico
          [] col = "Total Complexity Index"      -> r.indice_total ]
Rename(df) == [rows |-> [i \in 1..Len(df.rows) |-> RenameRow(df.rows[i])], cols |-> df.cols]

\* the order of server.send_message: download.py sends msg_user first,
\* contact.py msg_admin; the variant sends the user's message twice
RecipientsBad(form) == <<"user", "user">>
Recipients(form) == IF form = "download" THEN <<"user", "admin">> ELSE <<"admin", "user">>

\* st.download_button: Streamlit raises StreamlitAPIException when the
\* button is created inside a form, otherwise the download is offered
DownloadButton(p, format) ==
    IF p.in_form
    THEN [p EXCEPT !.raised = "StreamlitAPIException", !.pc = "raised"]
    ELSE [p EXCEPT !.offered = Append(@, [format |-> format, data |-> p.df_download])]

\* _show_fallback_download: the CSV button, then the Excel button
ShowFallbackDownload(p) ==
    LET p1 == DownloadButton(p, "CSV")
    IN  IF p1.raised # None THEN p1
        ELSE LET p2 == DownloadButton(p1, "Excel")
             IN  IF p2.raised # None THEN p2 ELSE [p2 EXCEPT !.pc = "returned"]

Show(p, msgs) == [p EXCEPT !.messages = @ \o msgs]

FormInit ==
    /\ table = Seed /\ local = Seed
    /\ storeUp \in BOOLEAN
    /\ variant \in {"supabase", "sql"}
    /\ client = (variant = "supabase")
    /\ UploadIdle /\ CacheIdle
    /\ df_all_latest = EmptyFrame /\ selected_country = None
    /\ rankings_current = <<>> /\ outcome = "none"
    /\ RunBlank
    /\ previous_run = <<>>
    /\ request \in DownloadRequests \cup ContactRequests
    /\ mailenv \in MailEnvs
    /\ smtp = SmtpIdle
    /\ page = PageIdle

\* lines 128-135 of download.py, 59-66 of contact.py
Validate ==
    /\ page.pc = "submitted"
    /\ page' =
         IF request.user_name = "" \/ request.user_email = <<>>
            \/ request.institution = "" \/ request.purpose = ""
         THEN [Show(page, <<"error_required">>) EXCEPT !.pc = "returned"]
         ELSE IF ~ValidEmail(request.user_email)
         THEN [Show(page, <<"error_email">>) EXCEPT !.pc = "returned"]
         ELSE [page EXCEPT !.pc = IF request.form = "download" THEN "load" ELSE "send"]
    /\ UNCHANGED <<storeVars, uploadVars, cacheVars, dashVars, runVars, compVars,
                   rerunVars, request, mailenv, smtp>>

\* lines 137-162 of download.py: load_data_func with or without countries,
\* drop and rename.  data_loader.py raises out of the handler.
LoadDownload ==
    /\ page.pc = "load"
    /\ LET ys == Arg(Range(request.download_years[1], request.download_years[2]))
           r == IF request.download_countries # <<>>
                THEN Fetch(cache, "load_complexity_data",
                           Arg(request.download_countries), ys)
                ELSE Fetch(cache, "load_complexity_data", NoArg, ys)
       IN  /\ cache' = r.cache
           /\ page' =
                IF r.status # "ok"
                THEN [page EXCEPT !.raised = "OperationalError", !.pc = "raised"]
                ELSE [page EXCEPT !.loaded = TRUE, !.df_download = Rename(r.value),
                                  !.pc = "send"]
    /\ UNCHANGED <<storeVars, uploadVars, dashVars, runVars, compVars,
                   rerunVars, request, mailenv, smtp>>

\* _send_download_email / _send_contact_email up to the messages: the port
\* is parsed first, then the configuration is checked
Prepare ==
    /\ page.pc = "send"
    /\ page' =
         IF ~PortParses(mailenv)
         THEN [page EXCEPT !.sending = TRUE, !.pc = "except"]
         ELSE IF ~Configured(mailenv)
         THEN [Show(page, <<"error_config", "info_config">>)
                  EXCEPT !.sending = TRUE, !.pc = "returned"]
         ELSE [page EXCEPT !.sending = TRUE, !.pc = "connect"]
    /\ UNCHANGED <<storeVars, uploadVars, cacheVars, dashVars, runVars, compVars,
                   rerunVars, request, mailenv, smtp>>

\* smtplib.SMTP(smtp_server, smtp_port)
Connect(ok) ==
    /\ page.pc = "connect"
    /\ IF ok
       THEN /\ smtp' = [smtp EXCEPT !.connections = @ + 1, !.open = TRUE]
            /\ page' = [page EXCEPT !.pc = "starttls"]
       ELSE /\ smtp' = smtp
            /\ page' = [page EXCEPT !.pc = "except"]
    /\ UNCHANGED <<storeVars, uploadVars, cacheVars, dashVars, runVars, compVars,
                   rerunVars, request, mailenv>>

\* server.starttls(); an exception leaves the with block, which closes the
\* connection
StartTLS(ok) ==
    /\ page.pc = "starttls"
    /\ IF ok
       THEN /\ smtp' = [smtp EXCEPT !.tls = TRUE]
            /\ page' = [page EXCEPT !.pc = "login"]
       ELSE /\ smtp' = [smtp EXCEPT !.open = FALSE]
            /\ page' = [page EXCEPT !.pc = "except"]
    /\ UNCHANGED <<storeVars, uploadVars, cacheVars, dashVars, runVars, compVars,
                   rerunVars, request, mailenv>>

\* server.login(sender_email, sender_password)
Login(ok) ==
    /\ page.pc = "login"
    /\ IF ok
       THEN /\ smtp' = [smtp EXCEPT !.login = TRUE]
            /\ page' = [page EXCEPT !.pc = "send_message"]
       ELSE /\ smtp' = [smtp EXCEPT !.open = FALSE]
            /\ page' = [page EXCEPT !.pc = "except"]
    /\ UNCHANGED <<storeVars, uploadVars, cacheVars, dashVars, runVars, compVars,
                   rerunVars, request, mailenv>>

\* one server.send_message; after the second the with block ends and
\* st.success is shown
SendMessage(ok) ==
    /\ page.pc = "send_message"
    /\ LET to == Recipients(request.form)[Len(smtp.sent) + 1]
       IN  IF ~ok
           THEN /\ smtp' = [smtp EXCEPT !.open = FALSE]
                /\ page' = [page EXCEPT !.pc = "except"]
           ELSE IF Len(smtp.sent) = 0
           THEN /\ smtp' = [smtp EXCEPT !.sent = Append(@, to)]
                /\ page' = page
           ELSE /\ smtp' = [smtp EXCEPT !.sent = Append(@, to), !.open = FALSE]
                /\ page' = [Show(page, <<"success">>) EXCEPT !.pc = "returned"]
    /\ UNCHANGED <<storeVars, uploadVars, cacheVars, dashVars, runVars, compVars,
                   rerunVars, request, mailenv>>

\* the except branch of the handler: lines 175-178 of download.py, 70-74 of
\* contact.py
Except ==
    /\ page.pc = "except"
    /\ page' =
         IF request.form = "download"
         THEN ShowFallbackDownload(Show(page, <<"error_sending", "info_contact">>))
         ELSE [Show(page, <<"error_sending", "info_contact">>) EXCEPT !.pc = "returned"]
    /\ UNCHANGED <<storeVars, uploadVars, cacheVars, dashVars, runVars, compVars,
                   rerunVars, request, mailenv, smtp>>

FormNext ==
    \/ Validate
    \/ LoadDownload
    \/ Prepare
    \/ \E ok \in BOOLEAN : Connect(ok)
    \/ \E ok \in BOOLEAN : StartTLS(ok)
    \/ \E ok \in BOOLEAN : Login(ok)
    \/ \E ok \in BOOLEAN : SendMessage(ok)
    \/ Except

SpecForm == FormInit /\ [][FormNext]_vars

\* the handler has ended: it returned, or an exception left it
Ended == page.pc \in {"returned", "raised"}
\* a required field is empty, or the address lacks "@" or "."
Invalid(r) ==
    \/ r.user_name = "" \/ r.institution = "" \/ r.purpose = ""
    \/ r.user_email = <<>>
    \/ ~Has(r.user_email, "@") \/ ~Has(r.user_email, ".")
Shown(msg) == Has(page.messages, msg)
\* SENDER_EMAIL, SENDER_PASSWORD or ADMIN_EMAIL is unset or empty
SettingMissing(env) ==
    \E v \in {"SENDER_EMAIL", "SENDER_PASSWORD", "ADMIN_EMAIL"} : env[v] \in {None, ""}

\* C30: a submitted download or contact form with an empty required field,
\* or with an address without "@" or without ".", is rejected with one error
\* message and nothing else happens: no data is loaded (the cache is not
\* touched either), no SMTP connection is opened, no message is sent, no
\* download is offered, and no exception leaves the handler.
C30_InvalidRejected ==
    Invalid(request) =>
        /\ page.pc \in {"submitted", "returned"}
        /\ page.pc = "returned" =>
              page.messages =
                 IF request.user_name = "" \/ request.user_email = <<>>
                    \/ request.institution = "" \/ request.purpose = ""
                 THEN <<"error_required">> ELSE <<"error_email">>
        /\ ~page.loaded /\ page.df_download = EmptyFrame /\ cache = <<>>
        /\ ~page.sending /\ smtp = SmtpIdle
        /\ page.offered = <<>>
        /\ page.raised = None

\* every field is filled, the address has "@" but no ".", the mail settings
\* are complete and the store is reachable: the form is rejected all the same
C30_Witness ==
    /\ page.pc = "returned"
    /\ request.user_name # "" /\ request.institution # "" /\ request.purpose # ""
    /\ Has(request.user_email, "@") /\ ~Has(request.user_email, ".")
    /\ ~SettingMissing(mailenv) /\ PortParses(mailenv) /\ storeUp
    /\ page.messages = <<"error_email">>

\* the send function was called, it has ended, and a mail setting is missing
ConfigMissing == Ended /\ page.sending /\ SettingMissing(mailenv)
\* the send function returned after the configuration error, and nothing
\* else happened
ConfigErrorOnly ==
    /\ page.pc = "returned" /\ page.raised = None
    /\ Shown("error_config")
    /\ ~Shown("error_sending")
    /\ smtp = SmtpIdle
    /\ ~Shown("success")
    /\ page.offered = <<>>

\* C29 (as stated): whenever SENDER_EMAIL, SENDER_PASSWORD or ADMIN_EMAIL is
\* not configured, the send function shows the configuration error and
\* returns without raising: no connection, no message, no success message,
\* and the except branch with the fallback download is not entered.
C29_Original == ConfigMissing => ConfigErrorOnly

\* C29: the same, when SMTP_PORT is unset or holds an integer.  The port is
\* parsed before the configuration is checked: with a malformed SMTP_PORT
\* int() raises ValueError, the configuration error is never shown and the
\* handler's except branch runs (still no connection, no message and no
\* success message).
C29_ConfigMissing ==
    /\ (ConfigMissing /\ PortParses(mailenv)) => ConfigErrorOnly
    /\ (ConfigMissing /\ ~PortParses(mailenv)) =>
          /\ ~Shown("error_config")
          /\ Shown("error_sending")
          /\ smtp = SmtpIdle
          /\ ~Shown("success")
          /\ page.offered = <<>>

\* a valid download request whose data was loaded: only ADMIN_EMAIL is
\* missing, and the user gets neither the e-mail nor a download
C29_Witness ==
    /\ ConfigMissing /\ PortParses(mailenv)
    /\ request.form = "download"
    /\ IsSet(mailenv.SENDER_EMAIL) /\ IsSet(mailenv.SENDER_PASSWORD)
    /\ page.loaded /\ page.df_download.rows # <<>>
    /\ ConfigErrorOnly

\* C23: every message is sent on the one connection the handler opens,
\* after starttls() and login() have succeeded; at most two are sent, the
\* second to the other recipient; the success message is shown only after
\* both sends, and is shown whenever the send function was called with a
\* complete configuration and no step failed.  When the second send fails
\* the first message has been sent, no success is shown, and the handler's
\* error is.
C23_TwoMessages ==
    /\ [][smtp.sent' # smtp.sent =>
            /\ smtp.open /\ smtp.tls /\ smtp.login /\ smtp.connections = 1
            /\ smtp'.connections = 1
            /\ Len(smtp'.sent) = Len(smtp.sent) + 1
            /\ SubSeq(smtp'.sent, 1, Len(smtp.sent)) = smtp.sent
            /\ ~Shown("success")]_vars
    /\ [](/\ smtp.connections <= 1
          /\ Len(smtp.sent) <= 2
          /\ Len(smtp.sent) > 0 => (~SettingMissing(mailenv) /\ ~Invalid(request))
          /\ Shown("success") =>
                /\ Len(smtp.sent) = 2
                /\ {smtp.sent[1], smtp.sent[2]} = {"admin", "user"}
                /\ smtp.tls /\ smtp.login /\ ~smtp.open
                /\ ~Shown("error_sending")
          /\ (Ended /\ Len(smtp.sent) = 1) =>
                (~Shown("success") /\ Shown("error_sending"))
          /\ (Ended /\ page.sending /\ ~SettingMissing(mailenv) /\ ~Shown("error_sending")) =>
                (Shown("success") /\ Len(smtp.sent) = 2))

\* the second send failed: one message is out, and no success is shown
C23_Witness ==
    /\ Ended /\ Len(smtp.sent) = 1
    /\ smtp.tls /\ smtp.login
    /\ ~Shown("success") /\ Shown("error_sending")

\* the handler's except branch ran for a download request
SendFailed == Ended /\ request.form = "download" /\ Shown("error_sending")

\* C22 (as stated): when sending the download e-mail fails, no exception
\* leaves the handler, the error message is shown, and the loaded data is
\* offered for download as CSV and as Excel.
C22_FallbackOffered ==
    SendFailed =>
        /\ page.raised = None
        /\ {page.offered[i].format : i \in 1..Len(page.offered)} = {"CSV", "Excel"}
        /\ \A i \in 1..Len(page.offered) : page.offered[i].data = page.df_download

----------------------------------------------------------------------------
(* upload_data_to_supabase alone: every local table of Tables (2 to 7 rows) *)
(* or none, each insert answered with success, with an error in the         *)
(* response, or with an exception.                                          *)

UploadInit ==
    /\ table = Seed
    /\ local \in Tables \cup {EmptyTable}
    /\ storeUp \in BOOLEAN /\ client \in BOOLEAN /\ variant = "supabase"
    /\ UploadIdle /\ CacheIdle /\ DashIdle

UploadNext ==
    \/ UploadClear
    \/ \E result \in {"ok", "error", "raise"} : UploadBatch(result)
    \/ StoreFlip

SpecUpload == UploadInit /\ [][UploadNext]_vars

\* ceil(n / b)
Ceil(n, b) == (n + b - 1) \div b
\* the rows of batch i (from 1) of df: rows (i-1)b+1 .. min(ib, n)
BatchRows(df, i) ==
    SubSeq(df, (i - 1) * BatchSize + 1,
           IF i * BatchSize < Len(df) THEN i * BatchSize ELSE Len(df))
\* the rows of the batches 1..k that the log reports as inserted
RECURSIVE InsertedRows(_, _, _)
InsertedRows(df, log, k) ==
    IF k = 0 THEN <<>>
    ELSE InsertedRows(df, log, k - 1)
         \o (IF log[k] = "inserted" THEN BatchRows(df, k) ELSE <<>>)
\* the inserts answered so far
Answered(log) == {i \in 1..Len(log) : log[i] \in {"inserted", "batch_error"}}
UploadStarted == up_pc \in {"insert", "done", "aborted"} /\ up_df # <<>>

\* C28: with n local rows and batch size b the upload issues ceil(n / b)
\* inserts; insert i carries rows (i-1)b+1 .. min(ib, n), so the batches are
\* consecutive, disjoint and cover every row once, and the table holds
\* exactly the rows of the batches reported as inserted.  A batch answered
\* with an error is reported and the loop goes on with the next batch; an
\* exception ends the upload at once, after the table was cleared, and the
\* table keeps only the batches inserted before it.
C28_Batches ==
    /\ [](UploadStarted =>
            /\ up_df = AllRows(local)
            /\ up_next = BatchSize * Cardinality(Answered(up_log))
            /\ Answered(up_log) = 1..Cardinality(Answered(up_log))
            /\ Cardinality(Answered(up_log)) <= Ceil(Len(up_df), BatchSize)
            /\ table = TableOf(InsertedRows(up_df, up_log, Cardinality(Answered(up_log))))
            /\ (up_pc = "done" =>
                   /\ Len(up_log) = Ceil(Len(up_df), BatchSize)
                   /\ Answered(up_log) = 1..Len(up_log)
                   /\ ((\A i \in 1..Len(up_log) : up_log[i] = "inserted")
                         => AllRows(table) = up_df))
            /\ (up_pc = "insert" => Cardinality(Answered(up_log)) < Ceil(Len(up_df), BatchSize))
            /\ (up_pc = "aborted" =>
                   /\ up_log[Len(up_log)] = "upload_error"
                   /\ Len(AllRows(table)) < Len(up_df)))
    /\ [][ /\ (up_pc = "insert" /\ up_log' = Append(up_log, "batch_error")) =>
                /\ table' = table
                /\ up_next' = up_next + BatchSize
                /\ up_pc' = IF up_next' < Len(up_df) THEN "insert" ELSE "done"
           /\ (up_pc = "insert" /\ up_log' = Append(up_log, "inserted")) =>
                /\ table' = Insert(table, BatchRows(up_df, Len(up_log) + 1))
                /\ up_next' = up_next + BatchSize
                /\ up_pc' = IF up_next' < Len(up_df) THEN "insert" ELSE "done"
           /\ (up_pc = "insert" /\ up_log' = Append(up_log, "upload_error")) =>
                /\ table' = table /\ up_pc' = "aborted"
           /\ (up_pc = "insert" /\ up_pc' # "insert") => up_log' # up_log
           /\ up_pc \in {"done", "aborted"} =>
                /\ up_pc' = up_pc /\ table' = table /\ up_log' = up_log
        ]_vars

\* three batches: the first answered with an error, the second inserted,
\* the third raised; the table holds the second batch only
C28_Witness ==
    /\ up_pc = "aborted"
    /\ up_log = <<"batch_error", "inserted", "upload_error">>
    /\ Len(up_df) > 2 * BatchSize
    /\ AllRows(table) = BatchRows(up_df, 2)
=========================================================================
